---- MODULE Spec2Model ----
(***************************************************************************)
(* Project-Roza: the per-request workflow (src/service/integrated_workflow *)
(* .py) and the blacklist update step (src/service/blacklist_set.py) over  *)
(* the user_data collection.                                               *)
(*                                                                         *)
(* Conventions of the model                                                *)
(*  - one bot_id; a document key is <<group_id, user_id>>;                 *)
(*  - the collection is a function whose DOMAIN is the set of keys that    *)
(*    hold a document; a document is a function from the field names it    *)
(*    carries to their values (an upsert can create a document that lacks  *)
(*    fields);                                                             *)
(*  - a Python str is a sequence of one-character strings;                 *)
(*  - an ISO timestamp written by the server (datetime.utcnow()) is the    *)
(*    record [year, month, day, time]: its calendar date and its POSIX     *)
(*    time in ticks; a tick is 1/TicksPerSec second; the caller's float    *)
(*    timestamp is a number of ticks; the server's local time zone is UTC  *)
(*    (a naive timestamp is read back with .timestamp());                  *)
(*  - the Python values True / False / "pass" of a returned block_status   *)
(*    are the strings "True" / "False" / "pass".                           *)
(***************************************************************************)
EXTENDS Integers, Sequences, FiniteSets, TLC

VARIABLES store, now, ctx, upd, ops, coll, procs

vars == <<store, now, ctx, upd, ops, coll, procs>>

\* ------------------------------------------------------------------ bounds
TicksPerSec == 2
MaxClock == 2
MaxOps == 2
MaxBlackOps == 3
MaxUsageRuns == 5
MaxDays == 1
MaxHits == 2
MaxBlockCount == 3
MaxRaceCalls == 2
MaxJudgeLen == 3

\* ------------------------------------------------------------ value helpers
TEMPLATE_GROUP_ID == "9999"

Groups == {"g1", "g2", "g3"}

\* the groups most of the traffic below comes from
CallGroups == {"g1", "g2"}

Digits == {"0", "1", "2", "3", "4", "5", "6", "7", "8", "9"}

DigitVal(c) ==
    CASE c = "0" -> 0 [] c = "1" -> 1 [] c = "2" -> 2 [] c = "3" -> 3
      [] c = "4" -> 4 [] c = "5" -> 5 [] c = "6" -> 6 [] c = "7" -> 7
      [] c = "8" -> 8 [] c = "9" -> 9

RECURSIVE DigitsToInt(_)
DigitsToInt(s) ==
    IF s = <<>> THEN 0
    ELSE 10 * DigitsToInt(SubSeq(s, 1, Len(s) - 1)) + DigitVal(s[Len(s)])

IsDigits(s) == s # <<>> /\ \A i \in 1..Len(s) : s[i] \in Digits

RECURSIVE Strip(_)
Strip(s) ==
    IF s = <<>> THEN s
    ELSE IF Head(s) = " " THEN Strip(Tail(s))
    ELSE IF s[Len(s)] = " " THEN Strip(SubSeq(s, 1, Len(s) - 1))
    ELSE s

\* UtilityFunctions.safe_int_convert on a str
safe_int_convert(value, default) ==
    LET t == Strip(value) IN
    IF t = <<>> THEN default
    ELSE IF IsDigits(t) THEN DigitsToInt(t)
    ELSE IF Head(t) \in {"-", "+"} /\ IsDigits(Tail(t))
         THEN (IF Head(t) = "-" THEN 0 - DigitsToInt(Tail(t)) ELSE DigitsToInt(Tail(t)))
    ELSE default

\* UtilityFunctions.safe_int_convert on a document field read with dict.get:
\* <<>> is None (the default), <<n>> an integer n (int(str(n)) = n)
safe_int_convert_field(value, default) ==
    IF value = <<>> THEN default ELSE value[1]

\* A message pool of the configuration: None, a str or a list of str
PoolNone == [kind |-> "none", str |-> "", list |-> <<>>]
PoolStr(s) == [kind |-> "str", str |-> s, list |-> <<>>]
PoolList(l) == [kind |-> "list", str |-> "", list |-> l]

\* Python truthiness of a pool value
Truthy(messages) ==
    \/ messages.kind = "str" /\ messages.str # ""
    \/ messages.kind = "list" /\ messages.list # <<>>

\* UtilityFunctions.random_message: the set of strings the call can return
random_message(messages) ==
    IF messages.kind = "list"
    THEN (IF messages.list = <<>> THEN {""}
          ELSE {messages.list[i] : i \in 1..Len(messages.list)})
    ELSE {messages.str}

\* dict.get(field, default)
Get(doc, field, default) == IF field \in DOMAIN doc THEN doc[field] ELSE default

\* dict.get(field): <<>> for None, <<v>> for the value v
GetOpt(doc, field) == IF field \in DOMAIN doc THEN <<doc[field]>> ELSE <<>>

\* a quotient rounded up
PyIntCeil(num, den) == (num + den - 1) \div den

\* int(x) of a non-negative quotient num/den, and of a negative one (truncation)
PyIntTrunc(num, den) ==
    IF num >= 0 THEN num \div den ELSE 0 - ((0 - num) \div den)

\* a message shown to the user: its text and, for the blocked message, the
\* number of seconds printed in it
Msg(text, seconds) == [text |-> text, seconds |-> seconds]

BLANK == Msg(" ", 0)

PyBool(b) == IF b THEN "True" ELSE "False"

\* an assignment x = e followed by the statements f(x): e is evaluated once
Bind(e, f(_)) == CHOOSE v \in {f(x) : x \in {e}} : TRUE

RECURSIVE zfill(_, _)
zfill(s, width) == IF Len(s) >= width THEN s ELSE zfill(<<"0">> \o s, width)

\* ------------------------------------------------------------ MongoDBSystem
PersonaKeys ==
    {"basic_info", "living_habits", "psychological_traits",
     "interests_preferences", "dislikes", "ai_expectations", "memory_points"}

get_default_persona_attributes == [k \in PersonaKeys |-> ""]

get_default_block_stats(clk) ==
    [block_status |-> TRUE, block_count |-> 0, last_operate_time |-> clk]

get_default_total_usage ==
    [total_chat_count |-> 0, total_tokens |-> 0,
     total_prompt_token |-> 0, total_output_token |-> 0]

Key(group_id, user_id) == <<group_id, user_id>>

Exists(st, group_id, user_id) == Key(group_id, user_id) \in DOMAIN st

\* collection.insert_one under the unique index: a key holds one document
insert_one(st, group_id, user_id, doc) ==
    IF Exists(st, group_id, user_id) THEN st
    ELSE (Key(group_id, user_id) :> doc) @@ st

\* collection.update_one(..., {"$set": updates}, upsert=True)
update_one_upsert(st, group_id, user_id, updates) ==
    LET k == Key(group_id, user_id)
        old == IF k \in DOMAIN st THEN st[k] ELSE <<>>
    IN (k :> (updates @@ old)) @@ st

\* an update_many whose filter forgets the user
update_many_all(st, user_id, updates) ==
    [k \in DOMAIN st |-> updates @@ st[k]]

\* collection.update_many({"bot_id", "user_id"}, {"$set": updates})
update_many_user(st, user_id, updates) ==
    [k \in DOMAIN st |-> IF k[2] = user_id THEN updates @@ st[k] ELSE st[k]]

\* the groups whose document find(...$nin[9999, group_id]).limit(1) can return
other_group_docs(st, group_id, user_id) ==
    {g \in Groups \ {group_id} : Exists(st, g, user_id)}

\* a template that is the source document itself, restamped
create_template_whole(st, user_id, source_doc, clk) ==
    Bind([created_at |-> clk, updated_at |-> clk] @@ source_doc,
         LAMBDA template_doc :
           [store |-> insert_one(st, TEMPLATE_GROUP_ID, user_id, template_doc),
            doc |-> template_doc])

create_template_from_source(st, user_id, source_doc, clk) ==
    Bind( [favor_value |-> Get(source_doc, "favor_value", 0),
           last_favor_change |-> Get(source_doc, "last_favor_change", 0),
           persona_attributes |->
               Get(source_doc, "persona_attributes", get_default_persona_attributes),
           block_stats |-> Get(source_doc, "block_stats", get_default_block_stats(clk)),
           daily_usage_count |-> Get(source_doc, "daily_usage_count", 0),
           total_usage |-> get_default_total_usage,
           long_term_memory |-> Get(source_doc, "long_term_memory", <<>>),
           history_entries |-> <<>>,
           history_stats |-> [total_histories |-> 0],
           created_at |-> clk,
           updated_at |-> clk],
          LAMBDA template_doc :
            [store |-> insert_one(st, TEMPLATE_GROUP_ID, user_id, template_doc),
             doc |-> template_doc])

\* a new document that takes the template's values whatever the flags
build_document_always_inherits(xg, template, clk) ==
    LET get_value(field_name, default_value) ==
          IF template # <<>> THEN Get(template[1], field_name, default_value)
          ELSE default_value
    IN [block_stats |-> get_value("block_stats", get_default_block_stats(clk)),
        favor_value |-> get_value("favor_value", 0),
        last_favor_change |-> get_value("last_favor_change", 0),
        persona_attributes |->
            get_value("persona_attributes", get_default_persona_attributes),
        daily_usage_count |-> get_value("daily_usage_count", 0),
        total_usage |-> get_default_total_usage,
        long_term_memory |-> <<>>,
        history_entries |-> <<>>,
        history_stats |-> [total_histories |-> 0],
        created_at |-> clk,
        updated_at |-> clk]

\* xg: the cross-group flags set by set_cross_group_config;
\* template: <<>> for None, <<doc>> for a template document
build_document_from_template(xg, template, clk) ==
    LET get_value(field_name, default_value, cross_group_enabled) ==
          IF template # <<>> /\ cross_group_enabled = "enable"
          THEN Get(template[1], field_name, default_value)
          ELSE default_value
    IN [block_stats |-> get_value("block_stats", get_default_block_stats(clk), xg.blacklist),
        favor_value |-> get_value("favor_value", 0, xg.favor),
        last_favor_change |-> get_value("last_favor_change", 0, xg.favor),
        persona_attributes |->
            get_value("persona_attributes", get_default_persona_attributes, xg.persona),
        daily_usage_count |-> get_value("daily_usage_count", 0, xg.usage_limit),
        total_usage |-> get_default_total_usage,
        long_term_memory |-> <<>>,
        history_entries |-> <<>>,
        history_stats |-> [total_histories |-> 0],
        created_at |-> clk,
        updated_at |-> clk]

\* get_document after its early return (steps 2 to 5): the template is
\* looked up or made, the new document built, inserted and read back; pick is
\* the group of the document that find(...).limit(1) returns when several
\* other groups hold one (used only when one exists)
first_touch(st, xg, clk, group_id, user_id, pick) ==
      LET has_template == Exists(st, TEMPLATE_GROUP_ID, user_id)
          others == other_group_docs(st, group_id, user_id)
          has_other_group == others # {}
          source_group == IF pick \in others THEN pick ELSE CHOOSE g \in others : TRUE
      IN Bind(IF ~has_template /\ has_other_group
              THEN create_template_from_source(
                       st, user_id, st[Key(source_group, user_id)], clk)
              ELSE [store |-> st,
                    doc |-> IF has_template
                            THEN st[Key(TEMPLATE_GROUP_ID, user_id)] ELSE <<>>],
           LAMBDA made :
         LET template == IF has_template \/ has_other_group THEN <<made.doc>> ELSE <<>>
         IN Bind(build_document_from_template(xg, template, clk),
           LAMBDA new_doc :
         Bind(insert_one(made.store, group_id, user_id, new_doc),
           LAMBDA st2 :
         [store |-> st2, doc |-> st2[Key(group_id, user_id)]])))

\* a get_document without the early return for a document that exists
get_document_no_return(st, xg, clk, group_id, user_id, pick) ==
    first_touch(st, xg, clk, group_id, user_id, pick)

get_document(st, xg, clk, group_id, user_id, pick) ==
    IF Exists(st, group_id, user_id)
    THEN [store |-> st, doc |-> st[Key(group_id, user_id)]]
    ELSE first_touch(st, xg, clk, group_id, user_id, pick)

\* update_document: $set of the updates and of updated_at, upsert
update_document(st, clk, group_id, user_id, updates) ==
    update_one_upsert(st, group_id, user_id, ("updated_at" :> clk) @@ updates)

get_field(st, xg, clk, group_id, user_id, field_name, pick) ==
    Bind(get_document(st, xg, clk, group_id, user_id, pick),
         LAMBDA r : [store |-> r.store, value |-> GetOpt(r.doc, field_name)])

update_field(st, clk, group_id, user_id, field_name, new_value) ==
    update_document(st, clk, group_id, user_id, field_name :> new_value)

\* --------------------------------------------------------- BlacklistManager
\* datetime.fromisoformat(s).timestamp() of a server timestamp, in ticks
Timestamp(iso) == iso.time

\* the date of a server timestamp as the integer YYYYMMDD
DateVal(iso) == iso.year * 10000 + iso.month * 100 + iso.day

\* the decision with the lifespans compared strictly
blacklist_branch_strict(block_status, block_count, delta_time, warn_lifespan, block_lifespan) ==
    IF block_status = TRUE
    THEN (IF block_count = 0 THEN "pass"
          ELSE IF delta_time > warn_lifespan * TicksPerSec THEN "reset"
          ELSE "warned")
    ELSE (IF delta_time > block_lifespan * TicksPerSec THEN "lift"
          ELSE "blocked")

\* check_blacklist_status's decision; lifespans in seconds, delta_time in ticks
blacklist_branch(block_status, block_count, delta_time, warn_lifespan, block_lifespan) ==
    IF block_status = TRUE
    THEN (IF block_count = 0 THEN "pass"
          ELSE IF delta_time >= warn_lifespan * TicksPerSec THEN "reset"
          ELSE "warned")
    ELSE (IF delta_time >= block_lifespan * TicksPerSec THEN "lift"
          ELSE "blocked")

\* check_blacklist_status; lifespans in seconds, timestamp in ticks
check_blacklist_status(st, xg, clk, group_id, user_id, warn_lifespan, block_lifespan, timestamp, pick) ==
    Bind(get_field(st, xg, clk, group_id, user_id, "block_stats", pick), LAMBDA f :
    LET block_stats == IF f.value = <<>>
                       THEN [block_status |-> TRUE, block_count |-> 0,
                             last_operate_time |-> clk]
                       ELSE f.value[1]
        block_status == Get(block_stats, "block_status", TRUE)
        block_count == Get(block_stats, "block_count", 0)
        last_operate_timestamp == Timestamp(Get(block_stats, "last_operate_time", clk))
        delta_time == timestamp - last_operate_timestamp
        branch == blacklist_branch(block_status, block_count, delta_time,
                                   warn_lifespan, block_lifespan)
        new_stats == IF branch = "reset" THEN ("block_count" :> 0) @@ block_stats
                     ELSE ("block_status" :> TRUE) @@ block_stats
        need_update == branch \in {"reset", "lift"}
        allow_continue == branch # "blocked"
        left_block_time == PyIntTrunc(block_lifespan * TicksPerSec - delta_time, TicksPerSec)
    IN [store |-> IF need_update
                  THEN update_field(f.store, clk, group_id, user_id, "block_stats", new_stats)
                  ELSE f.store,
        allow_continue |-> allow_continue,
        stop_message |-> IF allow_continue THEN BLANK
                         ELSE Msg("BLOCKED_RETRY_IN_SECONDS", left_block_time),
        block_status |-> block_status,
        modified_count |-> IF need_update THEN 1 ELSE 0])

\* -------------------------------------------------------- UsageLimitManager
EPOCH_DATE == <<"1", "9", "7", "0", "0", "1", "0", "1">>

\* format_date on str arguments
format_date(year, month, day) ==
    LET year_str == IF year # <<>> THEN zfill(year, 4) ELSE <<"1", "9", "7", "0">>
        month_str == IF month # <<>> THEN zfill(month, 2) ELSE <<"0", "1">>
        day_str == IF day # <<>> THEN zfill(day, 2) ELSE <<"0", "1">>
        date_str == year_str \o month_str \o day_str
    IN IF Len(date_str) = 8 /\ IsDigits(date_str) THEN date_str ELSE EPOCH_DATE

\* the decision that takes the limit as the number of requests a day
usage_branch_strict(current_date_val, last_request_date_val, current_usage_val, usage_limit) ==
    IF current_date_val > last_request_date_val THEN "new_day"
    ELSE IF current_date_val = last_request_date_val
         THEN (IF current_usage_val < usage_limit THEN "under" ELSE "over")
    ELSE "anomaly"

\* check_usage_limit's decision
usage_branch(current_date_val, last_request_date_val, current_usage_val, usage_limit) ==
    IF current_date_val > last_request_date_val THEN "new_day"
    ELSE IF current_date_val = last_request_date_val
         THEN (IF current_usage_val < usage_limit THEN "under"
               ELSE IF current_usage_val = usage_limit THEN "boundary"
               ELSE "over")
    ELSE "anomaly"

\* a counter that a new day does not reset
usage_new_count_carry(branch, current_usage_val) ==
    CASE branch \in {"new_day", "under", "boundary"} -> current_usage_val + 1
      [] OTHER -> current_usage_val

\* the counter check_usage_limit computes
usage_new_count(branch, current_usage_val) ==
    CASE branch = "new_day" -> 1
      [] branch \in {"under", "boundary"} -> current_usage_val + 1
      [] OTHER -> current_usage_val

\* a gate that writes the counter back whatever it decided
usage_writes_always(allow_continue, current_date_val, last_request_date_val) == TRUE

\* whether check_usage_limit writes the counter
usage_writes(allow_continue, current_date_val, last_request_date_val) ==
    allow_continue \/ current_date_val > last_request_date_val

\* check_usage_limit; choice is the message random_message returns
check_usage_limit(st, xg, clk, group_id, user_id, usage_limit, year, month, day, overusage_output, pick, choice) ==
    Bind(get_field(st, xg, clk, group_id, user_id, "daily_usage_count", pick), LAMBDA f1 :
    Bind(get_field(f1.store, xg, clk, group_id, user_id, "updated_at", pick), LAMBDA f2 :
    LET current_usage_val == safe_int_convert_field(f1.value, 0)
        current_date_str == format_date(year, month, day)
        current_date_val == safe_int_convert(current_date_str, 19700101)
        last_request_date_val == IF f2.value # <<>> THEN DateVal(f2.value[1]) ELSE 19700101
        branch == usage_branch(current_date_val, last_request_date_val,
                               current_usage_val, usage_limit)
        new_usage_count == usage_new_count(branch, current_usage_val)
        allow_continue == branch \in {"new_day", "under", "boundary"}
        stop_message == CASE branch = "over" ->
                                 (IF Truthy(overusage_output) THEN Msg(choice, 0)
                                  ELSE Msg("DEFAULT_OVERUSAGE", 0))
                          [] branch = "anomaly" -> Msg("DATE_ANOMALY", 0)
                          [] OTHER -> BLANK
    IN [store |-> IF usage_writes(allow_continue, current_date_val, last_request_date_val)
                  THEN update_field(f2.store, clk, group_id, user_id,
                                    "daily_usage_count", new_usage_count)
                  ELSE f2.store,
        allow_continue |-> allow_continue,
        stop_message |-> stop_message,
        new_usage_count |-> new_usage_count,
        new_request_date |-> current_date_str,
        usage_limit |-> usage_limit]))

\* ------------------------------------------------------------- FavorManager
RECURSIVE valid_splits(_, _)
\* the strictly ascending subsequence kept by generate_favor_prompt;
\* prev is <<>> (None) or <<the last kept split point>>
valid_splits(split_points, prev) ==
    IF split_points = <<>> THEN <<>>
    ELSE IF prev = <<>> \/ Head(split_points) > prev[1]
         THEN <<Head(split_points)>> \o valid_splits(Tail(split_points), <<Head(split_points)>>)
    ELSE valid_splits(Tail(split_points), prev)

\* a stage selection that takes a value equal to a split point as below it
generate_favor_prompt_inclusive(prompts0, split_points, favor_value) ==
    LET splits == valid_splits(split_points, <<>>)
        prompts1 == IF prompts0 = <<>> THEN <<"FAVOR_SYSTEM_OK">> ELSE prompts0
        stage_count == Len(splits) + 1
        prompts == IF Len(prompts1) > stage_count THEN SubSeq(prompts1, 1, stage_count)
                   ELSE prompts1 \o [i \in 1..(stage_count - Len(prompts1)) |->
                                         prompts1[Len(prompts1)]]
        below == {i \in 1..Len(splits) : favor_value <= splits[i]}
    IN IF below # {} THEN prompts[CHOOSE i \in below : \A j \in below : i <= j]
       ELSE prompts[Len(splits) + 1]

generate_favor_prompt(prompts0, split_points, favor_value) ==
    LET splits == valid_splits(split_points, <<>>)
        prompts1 == IF prompts0 = <<>> THEN <<"FAVOR_SYSTEM_OK">> ELSE prompts0
        stage_count == Len(splits) + 1
        prompts == IF Len(prompts1) > stage_count THEN SubSeq(prompts1, 1, stage_count)
                   ELSE prompts1 \o [i \in 1..(stage_count - Len(prompts1)) |->
                                         prompts1[Len(prompts1)]]
        below == {i \in 1..Len(splits) : favor_value < splits[i]}
    IN IF below # {} THEN prompts[CHOOSE i \in below : \A j \in below : i <= j]
       ELSE prompts[Len(splits) + 1]

get_favor_prompt(st, xg, clk, group_id, user_id, prompts, split_points, main_prompt, pick) ==
    Bind(get_field(st, xg, clk, group_id, user_id, "favor_value", pick), LAMBDA f :
    LET favor_value == IF f.value # <<>> THEN f.value[1] ELSE 0
    IN Bind(generate_favor_prompt(prompts, split_points, favor_value), LAMBDA favor_prompt :
       [store |-> f.store,
        favor_value |-> favor_value,
        favor_prompt |-> <<favor_prompt>>,
        enhanced_main_prompt |-> main_prompt \o <<"VERY_IMPORTANT!", favor_prompt, ".\n">>]))

\* ----------------------------------------------------------- PersonaManager
PersonaOrder ==
    <<"basic_info", "living_habits", "psychological_traits",
      "interests_preferences", "dislikes", "ai_expectations", "memory_points">>

RECURSIVE persona_parts(_, _)
\* the "label: value" parts of the non-empty attributes from position i on,
\* joined with the separator
persona_parts(persona_attrs, i) ==
    IF i > Len(PersonaOrder) THEN <<>>
    ELSE LET v == Get(persona_attrs, PersonaOrder[i], "")
             rest == persona_parts(persona_attrs, i + 1)
         IN IF v = "" THEN rest
            ELSE IF rest = <<>> THEN <<PersonaOrder[i], ": ", v>>
            ELSE <<PersonaOrder[i], ": ", v, ";">> \o rest

get_persona_prompt(st, xg, clk, group_id, user_id, main_prompt, pick) ==
    Bind(get_field(st, xg, clk, group_id, user_id, "persona_attributes", pick), LAMBDA f :
    LET persona_attrs == IF f.value = <<>> THEN get_default_persona_attributes
                         ELSE f.value[1]
    IN Bind(persona_parts(persona_attrs, 1), LAMBDA parts :
       LET persona_text == IF parts = <<>> THEN <<"NO_PERSONA_INFO">> ELSE parts
       IN [store |-> f.store,
           persona_text |-> persona_text,
           enhanced_main_prompt |->
               main_prompt \o <<"\nPERSONA:">> \o persona_text \o <<"\n">>]))

\* ----------------------------------------------------------- ContextManager
\* history_entries[-n:]
\* the first n entries
FirstN(seq, n) == IF n >= Len(seq) THEN seq ELSE SubSeq(seq, 1, n)

\* seq[-n:] for n > 0
LastN(seq, n) == IF n >= Len(seq) THEN seq ELSE SubSeq(seq, Len(seq) - n + 1, Len(seq))

RECURSIVE context_parts(_)
\* the formatted units, joined with newlines
context_parts(entries) ==
    IF entries = <<>> THEN <<>>
    ELSE LET e == Head(entries)
             unit == <<"{", e.created_at, ":", e.user_name, " said ", e.user_query,
                       "; your reaction was ", e.output, "}">>
         IN IF Tail(entries) = <<>> THEN unit
            ELSE unit \o <<"\n">> \o context_parts(Tail(entries))

get_context_prompt(st, xg, clk, group_id, user_id, context_pool_size, main_prompt, pick) ==
    Bind(get_field(st, xg, clk, group_id, user_id, "history_entries", pick), LAMBDA f :
    LET history_entries == IF f.value = <<>> THEN <<>> ELSE f.value[1]
    IN Bind(IF context_pool_size <= 0 THEN <<>>
            ELSE IF Len(history_entries) > 0
                 THEN LastN(history_entries, context_pool_size)
            ELSE <<>>, LAMBDA recent_histories :
       Bind(context_parts(recent_histories), LAMBDA context_text :
       [store |-> f.store,
        context_text |-> IF recent_histories = <<>> THEN <<"NO_HISTORY">> ELSE context_text,
        context_count |-> Len(recent_histories),
        enhanced_main_prompt |->
            IF recent_histories = <<>> THEN main_prompt
            ELSE main_prompt \o <<"\nHISTORY:\n">> \o context_text \o <<"\n">>])))

\* ------------------------------------------------------------ MemoryManager
WordChars == {"a", "b", "c", "A", "B"}

Lower(c) == IF c = "A" THEN "a" ELSE IF c = "B" THEN "b" ELSE c

RECURSIVE tokens_from(_, _)
\* re.findall of the runs of word characters in text.lower(); cur is the run being read
tokens_from(text, cur) ==
    IF text = <<>> THEN (IF cur = <<>> THEN <<>> ELSE <<cur>>)
    ELSE IF Head(text) \in WordChars
         THEN tokens_from(Tail(text), Append(cur, Lower(Head(text))))
    ELSE (IF cur = <<>> THEN <<>> ELSE <<cur>>) \o tokens_from(Tail(text), <<>>)

simple_tokenizer(text) == tokens_from(text, <<>>)

build_vocabulary(texts) ==
    UNION {{simple_tokenizer(texts[i])[j] : j \in 1..Len(simple_tokenizer(texts[i]))}
             : i \in 1..Len(texts)}

\* Counter(tokens).get(word, 0)
token_count(text, word) ==
    LET t == simple_tokenizer(text) IN Cardinality({j \in 1..Len(t) : t[j] = word})

RECURSIVE SumOver(_, _, _)
\* sum over the words of vocab of count(a, w) * count(b, w)
SumOver(vocab, a, b) ==
    IF vocab = {} THEN 0
    ELSE LET w == CHOOSE x \in vocab : TRUE
         IN token_count(a, w) * token_count(b, w)
              + SumOver(vocab \ {w}, a, b)

\* cosine_similarity(text_to_vector(a), text_to_vector(b)) as the exact
\* fraction dot^2 / (na * nb) of non-negative integers (its square), so that
\* two similarities compare without square roots; [dot, na, nb]
cosine_similarity(a, b, vocab) ==
    IF vocab = {} \/ a = <<>> \/ b = <<>> THEN [dot |-> 0, na |-> 0, nb |-> 0]
    ELSE [dot |-> SumOver(vocab, a, b),
          na |-> SumOver(vocab, a, a),
          nb |-> SumOver(vocab, b, b)]

SimPositive(x) == x.dot > 0 /\ x.na > 0 /\ x.nb > 0

\* x > y for two similarities against the same query (x.na = y.na)
SimGreater(x, y) ==
    /\ SimPositive(x)
    /\ \/ ~SimPositive(y)
       \/ x.dot * x.dot * y.nb > y.dot * y.dot * x.nb

\* similarities[:k]
PyPrefix(seq, k) ==
    IF k >= 0 THEN SubSeq(seq, 1, IF k < Len(seq) THEN k ELSE Len(seq))
    ELSE SubSeq(seq, 1, IF Len(seq) + k > 0 THEN Len(seq) + k ELSE 0)

\* the indices 1..n in the order of list.sort(key=similarity, reverse=True):
\* descending similarity, equal similarities in their original order
sort_desc(sims) ==
    LET n == Len(sims)
        before(i, j) == SimGreater(sims[i], sims[j])
                          \/ (~SimGreater(sims[j], sims[i]) /\ i < j)
        rank(i) == 1 + Cardinality({j \in 1..n : j # i /\ before(j, i)})
    IN [r \in 1..n |-> CHOOSE i \in 1..n : rank(i) = r]

RECURSIVE memory_inputs_of(_)
memory_inputs_of(long_term_memory) ==
    IF long_term_memory = <<>> THEN <<>>
    ELSE LET e == Head(long_term_memory)
             rest == memory_inputs_of(Tail(long_term_memory))
         IN IF e.kind = "dict"
            THEN (IF e.user_input # <<>> THEN <<e.user_input>> \o rest ELSE rest)
            ELSE <<e.text>> \o rest

RECURSIVE hits_of(_, _)
\* the hit_memories entries for the indices top_indices, in that order
hits_of(long_term_memory, top_indices) ==
    IF top_indices = <<>> THEN <<>>
    ELSE LET idx == Head(top_indices)
             entry == long_term_memory[idx]
             hit == IF entry.kind = "dict"
                    THEN [user_input |-> entry.user_input,
                          memory_description |-> entry.memory_description,
                          hit_count |-> entry.hit_count + 1]
                    ELSE [user_input |-> <<>>, memory_description |-> entry.text,
                          hit_count |-> 1]
         IN (IF idx <= Len(long_term_memory) THEN <<hit>> ELSE <<>>)
              \o hits_of(long_term_memory, Tail(top_indices))

RECURSIVE descriptions_of(_)
\* "\n".join of the non-empty descriptions of the hits
descriptions_of(hits) ==
    IF hits = <<>> THEN <<>>
    ELSE LET d == Head(hits).memory_description
             rest == descriptions_of(Tail(hits))
         IN IF d = <<>> THEN rest
            ELSE IF rest = <<>> THEN d ELSE d \o <<"\n">> \o rest

get_memory_prompt(st, xg, clk, group_id, user_id, user_query, main_prompt, memory_retrieval_number, pick) ==
    Bind(get_field(st, xg, clk, group_id, user_id, "long_term_memory", pick), LAMBDA f :
    LET long_term_memory == IF f.value = <<>> THEN <<>> ELSE f.value[1]
    IN Bind(memory_inputs_of(long_term_memory), LAMBDA memory_inputs :
       IF long_term_memory = <<>> \/ user_query = <<>> \/ memory_inputs = <<>>
       THEN [store |-> f.store, hit_memories |-> <<>>, enhanced_main_prompt |-> main_prompt]
       ELSE
       Bind(build_vocabulary(Append(memory_inputs, user_query)), LAMBDA vocabulary :
       Bind([i \in 1..Len(memory_inputs) |->
                cosine_similarity(user_query, memory_inputs[i], vocabulary)],
            LAMBDA similarities :
       Bind(sort_desc(similarities), LAMBDA order :
       LET top_k == IF memory_retrieval_number < Len(similarities)
                    THEN memory_retrieval_number ELSE Len(similarities)
           top == PyPrefix(order, top_k)
       IN Bind(SelectSeq(top, LAMBDA i : SimPositive(similarities[i])),
               LAMBDA top_indices :
          Bind(hits_of(long_term_memory, top_indices), LAMBDA hit_memories :
          LET hit_set == {top_indices[i] : i \in 1..Len(top_indices)}
              updated == [i \in 1..Len(long_term_memory) |->
                            IF i \in hit_set /\ long_term_memory[i].kind = "dict"
                            THEN [long_term_memory[i] EXCEPT !.hit_count = @ + 1]
                            ELSE long_term_memory[i]]
              descriptions == descriptions_of(hit_memories)
          IN [store |-> IF hit_memories # <<>>
                        THEN update_field(f.store, clk, group_id, user_id,
                                          "long_term_memory", updated)
                        ELSE f.store,
              hit_memories |-> hit_memories,
              enhanced_main_prompt |->
                  IF descriptions # <<>>
                  THEN main_prompt \o <<"\n\nMEMORIES:\n">> \o descriptions \o <<"\n">>
                  ELSE main_prompt])))))))

\* -------------------------------------------------------- IntegratedWorkflow
\* inp is the record of main's arguments; xg the cross-group flags among them
XG(inp) == [favor |-> inp.favor_cross_group, persona |-> inp.persona_cross_group,
            blacklist |-> inp.blacklist_cross_group,
            usage_limit |-> inp.usage_limit_cross_group]

\* a gate that skips its check only when its switch is off
skip_check_disabled_only(system, restrict_admin_users, is_user_admin) ==
    system = "disable"

\* skip_blacklist_check / skip_usage_check of steps 1 and 3
skip_check(system, restrict_admin_users, is_user_admin) ==
    \/ system = "disable"
    \/ /\ system = "enable"
       /\ restrict_admin_users = "disable"
       /\ is_user_admin = "true"

step_1_blacklist_check(st, clk, inp, pick) ==
    LET skip_blacklist_check ==
            skip_check(inp.blacklist_system, inp.blacklist_restrict_admin_users,
                       inp.is_user_admin)
        warn_lifespan_int == safe_int_convert(inp.warn_lifespan, 0)
        block_lifespan_int == safe_int_convert(inp.block_lifespan, 0)
    IN IF skip_blacklist_check
       THEN [store |-> st, continue_to_step_2 |-> TRUE, stop_reason |-> "None",
             stop_message |-> BLANK, block_status |-> "pass", modified_count |-> 0]
       ELSE Bind(check_blacklist_status(
                     st, XG(inp), clk, inp.group_id, inp.user_id,
                     warn_lifespan_int, block_lifespan_int, inp.timestamp, pick),
                 LAMBDA check_result :
            [store |-> check_result.store,
             continue_to_step_2 |-> check_result.allow_continue,
             stop_reason |-> IF check_result.allow_continue THEN "None" ELSE "block",
             stop_message |-> check_result.stop_message,
             block_status |-> PyBool(check_result.block_status),
             modified_count |-> check_result.modified_count])

\* choice is the message random_message returns
\* step 2 naming its rejection by a reason of its own
step_2_other_reason(user_query, max_input_size, overinput_output, choice) ==
    LET max_length == safe_int_convert(max_input_size, 0)
        input_length == Len(user_query)
    IN IF input_length < max_length \/ max_length = 0
       THEN [continue_to_step_3 |-> TRUE, stop_reason |-> "None", stop_message |-> BLANK,
             input_length |-> input_length, max_length |-> max_length]
       ELSE [continue_to_step_3 |-> FALSE, stop_reason |-> "too_long",
             stop_message |-> Msg("DEFAULT_OVERINPUT", 0),
             input_length |-> input_length, max_length |-> max_length]

step_2_input_length_check(user_query, max_input_size, overinput_output, choice) ==
    LET max_length == safe_int_convert(max_input_size, 0)
        input_length == Len(user_query)
    IN IF input_length < max_length \/ max_length = 0
       THEN [continue_to_step_3 |-> TRUE, stop_reason |-> "None", stop_message |-> BLANK,
             input_length |-> input_length, max_length |-> max_length]
       ELSE [continue_to_step_3 |-> FALSE, stop_reason |-> "input_exceeds_max_length",
             stop_message |-> IF Truthy(overinput_output) THEN Msg(choice, 0)
                              ELSE Msg("DEFAULT_OVERINPUT", 0),
             input_length |-> input_length, max_length |-> max_length]

step_3_usage_limit_check(st, clk, inp, pick, choice) ==
    LET skip_usage_check ==
            skip_check(inp.usage_limit_system, inp.usage_restrict_admin_users,
                       inp.is_user_admin)
        usage_limit_int == safe_int_convert(inp.usage_limit, 0)
    IN IF skip_usage_check
       THEN [store |-> st, continue_to_step_4 |-> TRUE, stop_reason |-> "None",
             stop_message |-> BLANK,
             usage_info |-> [current_usage |-> 0, usage_limit |-> 0,
                             date |-> inp.year \o inp.month \o inp.day]]
       ELSE Bind(check_usage_limit(
                     st, XG(inp), clk, inp.group_id, inp.user_id, usage_limit_int,
                     inp.year, inp.month, inp.day, inp.overusage_output, pick, choice),
                 LAMBDA check_result :
            [store |-> check_result.store,
             continue_to_step_4 |-> check_result.allow_continue,
             stop_reason |-> IF check_result.allow_continue THEN "None" ELSE "overusage",
             stop_message |-> check_result.stop_message,
             usage_info |-> [current_usage |-> check_result.new_usage_count,
                             usage_limit |-> check_result.usage_limit,
                             date |-> check_result.new_request_date]])

step_4_favor_prompt(st, clk, inp, main_prompt, pick) ==
    IF inp.favor_system = "disable"
    THEN [store |-> st, favor_value |-> 0, favor_prompt |-> <<>>,
          enhanced_main_prompt |-> main_prompt]
    ELSE Bind(get_favor_prompt(st, XG(inp), clk, inp.group_id, inp.user_id,
                               inp.favor_prompts, inp.favor_split_points,
                               main_prompt, pick),
              LAMBDA result :
         [store |-> result.store, favor_value |-> result.favor_value,
          favor_prompt |-> result.favor_prompt,
          enhanced_main_prompt |-> result.enhanced_main_prompt])

step_5_persona_prompt(st, clk, inp, main_prompt, pick) ==
    IF inp.persona_system = "disable"
    THEN [store |-> st, persona_text |-> <<>>, enhanced_main_prompt |-> main_prompt]
    ELSE Bind(get_persona_prompt(st, XG(inp), clk, inp.group_id, inp.user_id,
                                 main_prompt, pick),
              LAMBDA result :
         [store |-> result.store, persona_text |-> result.persona_text,
          enhanced_main_prompt |-> result.enhanced_main_prompt])

\* context_count is <<>> when the returned dict has no such key
step_6_context_prompt(st, clk, inp, main_prompt, pick) ==
    LET pool_size == safe_int_convert(inp.context_pool_size, 0)
    IN IF inp.context_system = "disable"
       THEN [store |-> st, context_text |-> <<>>, context_count |-> <<>>,
             enhanced_main_prompt |-> main_prompt]
       ELSE Bind(get_context_prompt(st, XG(inp), clk, inp.group_id, inp.user_id,
                                    pool_size, main_prompt, pick),
                 LAMBDA result :
            [store |-> result.store, context_text |-> result.context_text,
             context_count |-> <<result.context_count>>,
             enhanced_main_prompt |-> result.enhanced_main_prompt])

step_7_memory_prompt(st, clk, inp, main_prompt, pick) ==
    LET retrieval_num == safe_int_convert(inp.memory_retrieval_number, 5)
    IN IF inp.memory_system = "disable"
       THEN [store |-> st, stop_reason |-> "finish", stop_message |-> BLANK,
             hit_memories |-> <<>>, enhanced_main_prompt |-> main_prompt]
       ELSE Bind(get_memory_prompt(st, XG(inp), clk, inp.group_id, inp.user_id,
                                   inp.user_query, main_prompt, retrieval_num, pick),
                 LAMBDA result :
            [store |-> result.store, stop_reason |-> "finish", stop_message |-> BLANK,
             hit_memories |-> result.hit_memories,
             enhanced_main_prompt |-> result.enhanced_main_prompt])

\* the value of a defaulted text field of main's early returns (" ")
BlankText == <<" ">>

\* step7_hit_memories: " " (dumped = FALSE) or json.dumps of the hit list
NoHitsField == [dumped |-> FALSE, hits |-> <<>>]

\* main's return when step 1 stops the run
main_return_1(inp, step1_result) ==
    [stop_reason |-> step1_result.stop_reason,
     stop_message |-> step1_result.stop_message,
     step_stopped_at |-> 1,
     main_prompt |-> inp.main_prompt,
     block_status |-> step1_result.block_status,
     block_message |-> step1_result.stop_message,
     step2_input_length |-> 0, step2_max_length |-> 0,
     step3_current_usage |-> 0, step3_usage_limit |-> 0, step3_usage_date |-> BlankText,
     favor_value |-> 0, favor_prompt |-> BlankText,
     persona |-> BlankText,
     context |-> BlankText, step6_context_count |-> 0,
     step7_hit_memories |-> NoHitsField]

\* main's return when step 2 stops the run
main_return_2(inp, step1_result, step2_result) ==
    [stop_reason |-> step2_result.stop_reason,
     stop_message |-> step2_result.stop_message,
     step_stopped_at |-> 2,
     main_prompt |-> inp.main_prompt,
     block_status |-> step1_result.block_status,
     block_message |-> step1_result.stop_message,
     step2_input_length |-> step2_result.input_length,
     step2_max_length |-> step2_result.max_length,
     step3_current_usage |-> 0, step3_usage_limit |-> 0, step3_usage_date |-> BlankText,
     favor_value |-> 0, favor_prompt |-> BlankText,
     persona |-> BlankText,
     context |-> BlankText, step6_context_count |-> 0,
     step7_hit_memories |-> NoHitsField]

\* main's return when step 3 stops the run
main_return_3(inp, step1_result, step2_result, step3_result) ==
    [stop_reason |-> step3_result.stop_reason,
     stop_message |-> step3_result.stop_message,
     step_stopped_at |-> 3,
     main_prompt |-> inp.main_prompt,
     block_status |-> step1_result.block_status,
     block_message |-> step1_result.stop_message,
     step2_input_length |-> step2_result.input_length,
     step2_max_length |-> step2_result.max_length,
     step3_current_usage |-> step3_result.usage_info.current_usage,
     step3_usage_limit |-> step3_result.usage_info.usage_limit,
     step3_usage_date |-> step3_result.usage_info.date,
     favor_value |-> 0, favor_prompt |-> BlankText,
     persona |-> BlankText,
     context |-> BlankText, step6_context_count |-> 0,
     step7_hit_memories |-> NoHitsField]

\* main's return after step 7; c is the run's context with the step results
main_return_7(c, step7_result) ==
    [stop_reason |-> "finish",
     stop_message |-> BLANK,
     step_stopped_at |-> 7,
     main_prompt |-> step7_result.enhanced_main_prompt,
     block_status |-> c.step1_result.block_status,
     block_message |-> c.step1_result.stop_message,
     step2_input_length |-> c.step2_result.input_length,
     step2_max_length |-> c.step2_result.max_length,
     step3_current_usage |-> c.step3_result.usage_info.current_usage,
     step3_usage_limit |-> c.step3_result.usage_info.usage_limit,
     step3_usage_date |-> c.step3_result.usage_info.date,
     favor_value |-> c.step4_result.favor_value,
     favor_prompt |-> c.step4_result.favor_prompt,
     persona |-> c.step5_result.persona_text,
     context |-> c.step6_result.context_text,
     step6_context_count |-> IF c.step6_result.context_count = <<>> THEN 0
                             ELSE c.step6_result.context_count[1],
     step7_hit_memories |-> [dumped |-> TRUE, hits |-> step7_result.hit_memories]]

\* a step's result without the collection it left
Sans(r) == [f \in DOMAIN r \ {"store"} |-> r[f]]

\* ----------------------------------------------------------- blacklist_set
\* BlacklistUpdater.calculate_new_status; block_status is the caller's argument
calculate_new_status(st, clk, group_id, user_id, block_status, warn_count_threshold, warn_lifespan, timestamp) ==
    LET document == IF Exists(st, group_id, user_id)
                    THEN st[Key(group_id, user_id)] ELSE <<>>
        block_stats == IF "block_stats" \in DOMAIN document THEN document["block_stats"]
                       ELSE [block_status |-> TRUE, block_count |-> 0,
                             last_operate_time |-> clk]
        current_block_count == Get(block_stats, "block_count", 0)
        last_operate_timestamp == Timestamp(Get(block_stats, "last_operate_time", clk))
        delta_time == timestamp - last_operate_timestamp
        new_block_count == IF delta_time >= warn_lifespan * TicksPerSec THEN 1
                           ELSE current_block_count + 1
    IN IF block_status # "True"
       THEN [new_block_status |-> block_status, new_block_count |-> 0,
             need_update |-> FALSE, block_message |-> BLANK]
       ELSE IF delta_time >= warn_lifespan * TicksPerSec
       THEN [new_block_status |-> "True", new_block_count |-> 1,
             need_update |-> TRUE, block_message |-> Msg("[warn]", 0)]
       ELSE IF new_block_count < warn_count_threshold
       THEN [new_block_status |-> "True", new_block_count |-> new_block_count,
             need_update |-> TRUE, block_message |-> Msg("[warn]", 0)]
       ELSE [new_block_status |-> "False", new_block_count |-> new_block_count,
             need_update |-> TRUE, block_message |-> Msg("BLOCKED_NOW", 0)]

update_blacklist_single_group(st, clk, group_id, user_id, new_block_status, new_block_count) ==
    update_one_upsert(st, group_id, user_id,
        [block_stats |-> [block_status |-> new_block_status = "True",
                          block_count |-> new_block_count,
                          last_operate_time |-> clk],
         updated_at |-> clk])

update_blacklist_cross_group(st, clk, user_id, new_block_status, new_block_count) ==
    update_many_user(st, user_id,
        [block_stats |-> [block_status |-> new_block_status = "True",
                          block_count |-> new_block_count,
                          last_operate_time |-> clk],
         updated_at |-> clk])

\* int(x) if x else default, with default on ValueError (blacklist_set.main)
int_or_default(value, default) == safe_int_convert(value, default)

\* blacklist_set.main; a is the record of its arguments
blacklist_set_main(st, clk, a) ==
    LET warn_count_int == int_or_default(a.warn_count, 3)
        warn_lifespan_int == int_or_default(a.warn_lifespan, 300)
    IN IF a.blacklist_system = "disable"
       THEN [store |-> st, new_block_status |-> "True", block_count |-> 0,
             block_message |-> BLANK]
       ELSE Bind(calculate_new_status(
                     st, clk, a.group_id, a.user_id, a.block_status,
                     warn_count_int, warn_lifespan_int, a.timestamp),
                 LAMBDA status_result :
            [store |-> IF ~status_result.need_update THEN st
                       ELSE IF a.blacklist_cross_group = "enable"
                       THEN update_blacklist_cross_group(
                                st, clk, a.user_id, status_result.new_block_status,
                                status_result.new_block_count)
                       ELSE update_blacklist_single_group(
                                st, clk, a.group_id, a.user_id,
                                status_result.new_block_status,
                                status_result.new_block_count),
             new_block_status |-> status_result.new_block_status,
             block_count |-> status_result.new_block_count,
             block_message |-> status_result.block_message])

\* ---------------------------------------------------------------- favor_set
RECURSIVE findall_digits(_, _)
\* re.findall(r'\d+', s): the maximal runs of digits of s, left to right;
\* run is the run being read
findall_digits(s, run) ==
    IF s = <<>> THEN (IF run = <<>> THEN <<>> ELSE <<run>>)
    ELSE IF Head(s) \in Digits THEN findall_digits(Tail(s), Append(run, Head(s)))
    ELSE (IF run = <<>> THEN <<>> ELSE <<run>>) \o findall_digits(Tail(s), <<>>)

RECURSIVE sum_of(_)
sum_of(numbers) == IF numbers = <<>> THEN 0 ELSE Head(numbers) + sum_of(Tail(numbers))

\* a delta that takes every digit of the string as a number of its own
calculate_favor_change_per_digit(favor_judge) ==
    LET digits == SelectSeq(favor_judge, LAMBDA c : c \in Digits)
        numbers == [i \in 1..Len(digits) |-> DigitVal(digits[i])]
        avg == IF Len(numbers) > 0 THEN sum_of(numbers) \div Len(numbers) ELSE 4
    IN avg - 4

\* FavorUpdater.calculate_favor_change
calculate_favor_change(favor_judge) ==
    LET numbers_str == findall_digits(favor_judge, <<>>)
        numbers == [i \in 1..Len(numbers_str) |-> DigitsToInt(numbers_str[i])]
        filtered_numbers == SelectSeq(numbers, LAMBDA num : 0 <= num /\ num <= 9)
        avg == IF Len(filtered_numbers) > 0
               THEN sum_of(filtered_numbers) \div Len(filtered_numbers)
               ELSE 4
    IN avg - 4

\* a cross-group update that leaves last_favor_change alone
update_favor_cross_value_only(st, clk, user_id, new_favor_value, favor_change) ==
    update_many_user(st, user_id, [favor_value |-> new_favor_value, updated_at |-> clk])

update_favor_cross_group(st, clk, user_id, new_favor_value, favor_change) ==
    update_many_user(st, user_id,
        [favor_value |-> new_favor_value, last_favor_change |-> favor_change,
         updated_at |-> clk])

\* a single-group update that writes every document of the user
update_favor_single_as_cross(st, clk, group_id, user_id, new_favor_value, favor_change) ==
    update_favor_cross_group(st, clk, user_id, new_favor_value, favor_change)

update_favor_single_group(st, clk, group_id, user_id, new_favor_value, favor_change) ==
    update_one_upsert(st, group_id, user_id,
        [favor_value |-> new_favor_value, last_favor_change |-> favor_change,
         updated_at |-> clk])

\* favor_set.main; a is the record of its arguments (favor_cross_group is 1/0)
favor_set_main(st, clk, a) ==
    LET favor_change == calculate_favor_change(a.favor_judge)
        new_favor_value == a.favor_value + favor_change
    IN [store |-> IF a.favor_cross_group # 0
                  THEN update_favor_cross_group(
                           st, clk, a.user_id, new_favor_value, favor_change)
                  ELSE update_favor_single_group(
                           st, clk, a.group_id, a.user_id, new_favor_value, favor_change),
        favor_change |-> favor_change,
        new_favor_value |-> new_favor_value,
        favor_cross_group |-> IF a.favor_cross_group # 0 THEN 1 ELSE 0]

\* ---------------------------------------------------------- command_unified
\* the one bot of the model
BOT_ID == "b1"

\* a query is the record of its three optional equalities
\* _build_query; in any mode target is the list target.split(":")
build_query(group_id, target, has_any) ==
    IF ~has_any
    THEN [bot_id |-> <<BOT_ID>>, group_id |-> <<group_id>>,
          user_id |-> IF target = "all" THEN <<>> ELSE <<target>>]
    ELSE LET parts == SubSeq(target \o <<"", "", "">>, 1, 3)
             Opt(x) == IF x # "" /\ x # "%" THEN <<x>> ELSE <<>>
         IN [bot_id |-> Opt(parts[1]), group_id |-> Opt(parts[2]),
             user_id |-> Opt(parts[3])]

\* execute_command, clear branch: the query of one parameter
clear_query(group_id, param, has_any, cross_enabled) ==
    IF has_any THEN build_query(group_id, param, has_any)
    ELSE [bot_id |-> <<BOT_ID>>,
          group_id |-> IF cross_enabled THEN <<>> ELSE <<group_id>>,
          user_id |-> IF param = "all" THEN <<>> ELSE <<param>>]

\* a document of key k matches the query
Matches(query, k) ==
    /\ query.bot_id \in {<<>>, <<BOT_ID>>}
    /\ query.group_id \in {<<>>, <<k[1]>>}
    /\ query.user_id \in {<<>>, <<k[2]>>}

\* MongoDBSystem.update_many(query, updates)
update_many_query(st, query, updates) ==
    [k \in DOMAIN st |-> IF Matches(query, k) THEN updates @@ st[k] ELSE st[k]]

\* _apply_clear of type favor without a field (TYPE_DEFAULTS["favor"]["clear"])
apply_clear_favor(st, clk, query) ==
    update_many_query(st, query,
        [favor_value |-> 0, last_favor_change |-> 0, updated_at |-> clk])

RECURSIVE clear_each(_, _, _, _)
\* execute_command: the loop over the parameters of a clear
clear_each(st, clk, a, params) ==
    IF params = <<>> THEN st
    ELSE clear_each(
             apply_clear_favor(st, clk,
                 clear_query(a.group_id, Head(params), a.has_any,
                             a.favor_cross_group = "enable")),
             clk, a, Tail(params))

\* execute_command, get branch: the keys of the documents the finds return
command_reads(st, a) ==
    IF a.is_user_admin # "true" \/ a.action # "get" THEN {}
    ELSE {k \in DOMAIN st :
            \E i \in 1..Len(a.params) :
               Matches(build_query(a.group_id, a.params[i], a.has_any), k)}

\* execute_command for a parsed /Roza.get.favor or /Roza.clear.favor command
\* (with or without .any); a get only reads
execute_command(st, clk, a) ==
    IF a.is_user_admin # "true" THEN st
    ELSE IF a.action = "clear" THEN clear_each(st, clk, a, a.params)
    ELSE st

\* --------------------------------------------- command_unified: the parser
\* a command text is a sequence of symbols: the punctuation "/", ".", ":",
\* "%", the blank " ", the digits, the sign "-" and words, each word (Roza,
\* get, favor_value, u1, ...) standing for its letters

RECURSIVE lstrip(_, _)
\* str.lstrip(chars)
lstrip(s, chars) ==
    IF s # <<>> /\ Head(s) \in chars THEN lstrip(Tail(s), chars) ELSE s

\* the position of the first sep in s, 0 if there is none
find_sep(s, sep) ==
    IF \E i \in 1..Len(s) : s[i] = sep
    THEN CHOOSE i \in 1..Len(s) : s[i] = sep /\ \A j \in 1..(i - 1) : s[j] # sep
    ELSE 0

RECURSIVE split_sep(_, _)
\* str.split(sep): empty pieces are kept
split_sep(s, sep) ==
    LET i == find_sep(s, sep) IN
    IF i = 0 THEN <<s>>
    ELSE <<SubSeq(s, 1, i - 1)>> \o split_sep(SubSeq(s, i + 1, Len(s)), sep)

\* str.split(): pieces between runs of blanks, no empty piece
split_blank(s) == SelectSeq(split_sep(s, " "), LAMBDA t : t # <<>>)

RECURSIVE join(_, _)
\* sep.join(pieces)
join(pieces, sep) ==
    IF pieces = <<>> THEN <<>>
    ELSE IF Len(pieces) = 1 THEN pieces[1]
    ELSE pieces[1] \o <<sep>> \o join(Tail(pieces), sep)

\* a str literal of one word
Lit(w) == <<w>>

\* the tuple parse_command returns; field <<>> is None, <<f>> the str f
CommandParts(action, type_key, field, has_any, params) ==
    [action |-> action, type_key |-> type_key, field |-> field,
     has_any |-> has_any, params |-> params]

NoCommand == CommandParts(<<>>, <<>>, <<>>, FALSE, <<>>)

\* a parser that keeps the segment any in the field
parse_command_keeps_any(user_query) ==
    LET trimmed == Strip(user_query) IN
    IF ~(Len(trimmed) >= 3 /\ SubSeq(trimmed, 1, 3) = <<"/", "Roza", ".">>)
    THEN NoCommand
    ELSE
    LET tokens == split_blank(trimmed)
        segments == split_sep(lstrip(tokens[1], {"/"}), ".")
        n == Len(segments)
        has_any == segments[n] = Lit("any")
        params == Tail(tokens)
    IN IF n < 3 \/ segments[1] # Lit("Roza") THEN NoCommand
       ELSE CommandParts(segments[2], segments[3],
                IF n > 3 THEN <<join(SubSeq(segments, 4, n), ".")>> ELSE <<>>,
                has_any,
                IF params = <<>> THEN (IF has_any THEN <<<<"%", ":", "%", ":", "%">>>>
                                       ELSE <<Lit("all")>>)
                ELSE params)

\* parse_command(user_query) -> (action, type_key, field, has_any, params)
parse_command(user_query) ==
    LET trimmed == Strip(user_query) IN
    IF ~(Len(trimmed) >= 3 /\ SubSeq(trimmed, 1, 3) = <<"/", "Roza", ".">>)
    THEN NoCommand
    ELSE
    LET tokens == split_blank(trimmed)
        command_token == tokens[1]
        segments == split_sep(lstrip(command_token, {"/"}), ".")
        n == Len(segments)
        has_any == segments[n] = Lit("any")
        field == IF has_any
                 THEN (IF n > 4 THEN <<join(SubSeq(segments, 4, n - 1), ".")>> ELSE <<>>)
                 ELSE (IF n > 3 THEN <<join(SubSeq(segments, 4, n), ".")>> ELSE <<>>)
        params == Tail(tokens)
    IN IF n < 3 \/ segments[1] # Lit("Roza") THEN NoCommand
       ELSE CommandParts(segments[2], segments[3], field, has_any,
                IF params = <<>> THEN (IF has_any THEN <<<<"%", ":", "%", ":", "%">>>>
                                       ELSE <<Lit("all")>>)
                ELSE params)

\* Python truthiness of an optional str: None and "" are false
Given(field) == field # <<>> /\ field[1] # <<>>

\* ------------------------------------------ command_unified: the interpreter
\* a value of a document the commands work on carries its Python type: an
\* int n, a bool (n is 1 for True), a str or a list s, a timestamp, None
IntV(n) == [kind |-> "int", n |-> n, s |-> <<>>]
BoolV(b) == [kind |-> "bool", n |-> IF b THEN 1 ELSE 0, s |-> <<>>]
StrV(s) == [kind |-> "str", n |-> 0, s |-> s]
ListV(l) == [kind |-> "list", n |-> 0, s |-> l]
TimeV(clk) == [kind |-> "time", n |-> 0, s |-> <<clk>>]
NoneV == [kind |-> "none", n |-> 0, s |-> <<>>]

\* isinstance(x, dict): a dict maps its keys, a value has its kind
IsDict(x) == "kind" \notin DOMAIN x

\* Python truthiness of a value or a dict
TruthyV(x) ==
    IF IsDict(x) THEN DOMAIN x # {}
    ELSE CASE x.kind \in {"int", "bool"} -> x.n # 0
           [] x.kind \in {"str", "list"} -> x.s # <<>>
           [] x.kind = "time" -> TRUE
           [] x.kind = "none" -> FALSE

\* the str of a piece of a command text: the texts of the model put exactly
\* one word, or nothing, between two separators
Word(part) == CASE part = <<>> -> "" [] Len(part) = 1 -> part[1]

\* the keys of a dotted path
PathOf(dotted) == [i \in 1..Len(split_sep(dotted, ".")) |-> Word(split_sep(dotted, ".")[i])]

RECURSIVE get_nested_at(_, _)
get_nested_at(cur, parts) ==
    IF parts = <<>> THEN cur
    ELSE IF IsDict(cur)
         THEN (IF Head(parts) \in DOMAIN cur THEN get_nested_at(cur[Head(parts)], Tail(parts))
               ELSE NoneV)
    ELSE NoneV

\* _get_nested(doc, dotted)
get_nested(doc, dotted) == get_nested_at(doc, PathOf(dotted))

RECURSIVE set_at(_, _, _)
\* {"$set": {dotted: value}} on one document
set_at(cur, parts, value) ==
    IF Len(parts) = 1 THEN (parts[1] :> value) @@ cur
    ELSE LET k == Head(parts)
             sub == IF k \in DOMAIN cur /\ IsDict(cur[k]) THEN cur[k] ELSE <<>>
         IN (k :> set_at(sub, Tail(parts), value)) @@ cur

RECURSIVE set_all(_, _)
\* {"$set": updates}: updates is the list of the (dotted, value) items
set_all(doc, updates) ==
    IF updates = <<>> THEN doc
    ELSE set_all(set_at(doc, PathOf(updates[1][1]), updates[1][2]), Tail(updates))

\* MongoDBSystem.update_many(query, updates) with dotted keys
update_many_set(st, query, updates) ==
    [k \in DOMAIN st |-> IF Matches(query, k) THEN set_all(st[k], updates) ELSE st[k]]

\* the documents a query matches
matched(st, query) == {k \in DOMAIN st : Matches(query, k)}

\* the moment the module was imported (TYPE_DEFAULTS is built then)
ImportTime == [year |-> 2024, month |-> 1, day |-> 1, time |-> 0]

\* TYPE_DEFAULTS[type_key]["clear"] as the list of its items; {} for other types
clear_defaults(type_key) ==
    CASE type_key = Lit("favor") ->
           <<<<Lit("favor_value"), IntV(0)>>, <<Lit("last_favor_change"), IntV(0)>>>>
      [] type_key = Lit("usage") -> <<<<Lit("daily_usage_count"), IntV(0)>>>>
      [] type_key = Lit("memory") -> <<<<Lit("long_term_memory"), ListV(<<>>)>>>>
      [] type_key = Lit("context") -> <<<<Lit("history_entries"), ListV(<<>>)>>>>
      [] type_key = Lit("persona") ->
           <<<<Lit("persona_attributes"), [k \in PersonaKeys |-> StrV(<<>>)]>>>>
      [] type_key = Lit("blacklist") ->
           <<<<Lit("block_stats"),
               [block_status |-> BoolV(TRUE), block_count |-> IntV(0),
                last_operate_time |-> TimeV(ImportTime)]>>>>
      [] OTHER -> <<>>

\* the words that contain "_count" or end with "count"
CountWords ==
    {"daily_usage_count", "block_count", "total_chat_count", "hit_count", "count"}

\* "_count" in field or field.endswith("count")
names_count(field) == \E i \in 1..Len(field) : field[i] \in CountWords

\* _apply_clear, precise clear: the value written at field
clear_value(type_key, field) ==
    Bind(get_nested(set_all(<<>>, clear_defaults(type_key)), field), LAMBDA d :
         IF TruthyV(d) THEN d
         ELSE IF names_count(field) THEN IntV(0) ELSE StrV(<<>>))

\* _apply_clear(mongo, query, type_key, field) of command_unified
apply_clear(st, clk, query, type_key, field) ==
    LET updates ==
          IF Given(field)
          THEN (IF type_key = Lit("usage") /\ Head(field[1]) = "total_usage"
                THEN <<<<field[1], IntV(0)>>>>
                ELSE IF /\ type_key = Lit("blacklist")
                        /\ field[1] = <<"block_stats", ".", "last_operate_time">>
                THEN <<<<field[1], TimeV(clk)>>>>
                ELSE <<<<field[1], clear_value(type_key, field[1])>>>>)
          ELSE clear_defaults(type_key)
    IN [store |-> update_many_set(st, query, updates \o <<<<Lit("updated_at"), TimeV(clk)>>>>),
        matched |-> Cardinality(matched(st, query))]

\* the context clear that empties the history
trim_context_all(hist, pool_size) == <<>>

\* the history entries a context clear keeps: hist[:-pool_size]
trim_context(hist, pool_size) ==
    IF pool_size > 0 THEN SubSeq(hist, 1, Len(hist) - pool_size) ELSE hist

\* the clear of type context without a field: update_one on each document found
clear_context(st, clk, query, pool_size) ==
    [store |->
       [k \in DOMAIN st |->
          IF ~Matches(query, k) THEN st[k]
          ELSE Bind(Get(st[k], "history_entries", ListV(<<>>)), LAMBDA hist :
               IF hist.kind # "list" \/ hist.s = <<>> THEN st[k]
               ELSE Bind(trim_context(hist.s, pool_size), LAMBDA keep :
                    IF Len(keep) # Len(hist.s)
                    THEN set_all(st[k], <<<<Lit("history_entries"), ListV(keep)>>,
                                          <<Lit("updated_at"), TimeV(clk)>>>>)
                    ELSE st[k]))],
     matched |-> Cardinality(matched(st, query))]

\* str.lower() of a word
LowerWord(w) ==
    CASE w \in {"True", "TRUE"} -> "true" [] w \in {"False", "FALSE"} -> "false"
      [] OTHER -> w

\* int(value) of a str without blanks: <<n>>, or <<>> for a ValueError
py_int(value) ==
    IF IsDigits(value) THEN <<DigitsToInt(value)>>
    ELSE IF value # <<>> /\ Head(value) \in {"-", "+"} /\ IsDigits(Tail(value))
         THEN (IF Head(value) = "-" THEN <<0 - DigitsToInt(Tail(value))>>
               ELSE <<DigitsToInt(Tail(value))>>)
    ELSE <<>>

\* a coercion that takes every value it cannot read as the default of the type
validate_set_value_lenient(type_key, field, value) ==
    IF type_key = Lit("favor") /\ field \in {Lit("favor_value"), Lit("last_favor_change")}
    THEN <<IntV(IF py_int(value) = <<>> THEN 0 ELSE py_int(value)[1])>>
    ELSE IF type_key = Lit("blacklist") /\ field = Lit("block_count")
    THEN <<IntV(IF py_int(value) = <<>> THEN 0 ELSE py_int(value)[1])>>
    ELSE IF type_key = Lit("blacklist") /\ field = Lit("block_status")
    THEN <<BoolV(~(Len(value) = 1 /\ LowerWord(value[1]) \in {"false", "0"}))>>
    ELSE <<StrV(value)>>

\* _validate_set_value(type_key, field, value): <<coerced>>, or <<>> for a
\* ValueError
validate_set_value(type_key, field, value) ==
    IF type_key = Lit("favor") /\ field \in {Lit("favor_value"), Lit("last_favor_change")}
    THEN (IF py_int(value) = <<>> THEN <<>> ELSE <<IntV(py_int(value)[1])>>)
    ELSE IF type_key = Lit("blacklist") /\ field = Lit("block_count")
    THEN (IF py_int(value) = <<>> THEN <<>> ELSE <<IntV(py_int(value)[1])>>)
    ELSE IF type_key = Lit("blacklist") /\ field = Lit("block_status")
    THEN (IF Len(value) = 1 /\ LowerWord(value[1]) \in {"true", "1"} THEN <<BoolV(TRUE)>>
          ELSE IF Len(value) = 1 /\ LowerWord(value[1]) \in {"false", "0"}
          THEN <<BoolV(FALSE)>>
          ELSE <<>>)
    ELSE <<StrV(value)>>

\* _apply_set(mongo, query, type_key, field, value); error is the ValueError
apply_set(st, clk, query, type_key, field, value) ==
    Bind(validate_set_value(type_key, field, value), LAMBDA coerced :
    IF coerced = <<>>
    THEN [store |-> st, matched |-> 0,
          error |-> IF type_key = Lit("blacklist") /\ field = Lit("block_status")
                    THEN <<"BLOCK_STATUS_NOT_BOOLEAN">> ELSE <<"INVALID_INT_LITERAL">>]
    ELSE [store |-> update_many_set(st, query,
                       <<<<field, coerced[1]>>, <<Lit("updated_at"), TimeV(clk)>>>>
                       \o (IF type_key = Lit("favor") /\ field = Lit("favor_value")
                           THEN <<<<Lit("last_favor_change"), coerced[1]>>>> ELSE <<>>)),
          matched |-> Cardinality(matched(st, query)),
          error |-> <<>>])

\* RANK_FIELDS[type_key]; <<>> for a type that has no rank
RANK_FIELDS(type_key) ==
    CASE type_key = Lit("favor") -> <<Lit("favor_value"), Lit("last_favor_change")>>
      [] type_key = Lit("usage") ->
           <<Lit("daily_usage_count"),
             <<"total_usage", ".", "total_chat_count">>,
             <<"total_usage", ".", "total_tokens">>,
             <<"total_usage", ".", "total_prompt_token">>,
             <<"total_usage", ".", "total_output_token">>>>
      [] type_key = Lit("memory") -> <<Lit("history_entries")>>
      [] type_key = Lit("blacklist") -> <<<<"block_stats", ".", "block_count">>>>
      [] OTHER -> <<>>

RankTypes == {Lit("favor"), Lit("usage"), Lit("memory"), Lit("blacklist")}

\* s.split(".")[-1]
leaf_of(s) == split_sep(s, ".")[Len(split_sep(s, "."))]

\* a resolution that falls back on the first rankable field of the type
resolve_rank_field_first(type_key, field) ==
    IF field = <<>> \/ type_key \notin RankTypes THEN <<>>
    ELSE <<RANK_FIELDS(type_key)[1]>>

\* _resolve_rank_field(type_key, field): <<full_field>>, or <<>> for None
resolve_rank_field(type_key, field) ==
    LET fields == RANK_FIELDS(type_key)
        hits == {i \in 1..Len(fields) :
                   field = fields[i] \/ leaf_of(field) = leaf_of(fields[i])}
    IN IF field = <<>> \/ type_key \notin RankTypes \/ hits = {} THEN <<>>
       ELSE <<fields[CHOOSE i \in hits : \A j \in hits : i <= j]>>

\* _apply_rank: the numeric value of a raw value
numeric_value(raw_value) ==
    IF IsDict(raw_value) THEN 0
    ELSE CASE raw_value.kind \in {"int", "bool"} -> raw_value.n
           [] raw_value.kind = "list" -> Len(raw_value.s)
           [] raw_value.kind = "str" ->
                (IF py_int(raw_value.s) = <<>> THEN 0 ELSE py_int(raw_value.s)[1])
           [] OTHER -> 0

\* the permutations of a finite set, as sequences
Orders(S) ==
    {f \in [1..Cardinality(S) -> S] : \A i, j \in 1..Cardinality(S) : f[i] = f[j] => i = j}

RECURSIVE insert_desc(_, _)
\* the place of x in a list sorted descending by value, after its equals
insert_desc(sorted, x) ==
    IF sorted = <<>> THEN <<x>>
    ELSE IF Head(sorted)[2] >= x[2] THEN <<Head(sorted)>> \o insert_desc(Tail(sorted), x)
    ELSE <<x>> \o sorted

RECURSIVE sort_ranked(_)
\* list.sort(key=value, reverse=True): stable
sort_ranked(results) ==
    IF results = <<>> THEN <<>>
    ELSE insert_desc(sort_ranked(SubSeq(results, 1, Len(results) - 1)), results[Len(results)])

\* a rank that sorts ascending
apply_rank_ascending(st, docs, field, limit) ==
    LET results == [i \in 1..Len(docs) |->
                      <<docs[i][2], 0 - numeric_value(get_nested(st[docs[i]], field))>>]
        s == sort_ranked(results)
    IN [i \in 1..(IF limit < Len(s) THEN limit ELSE Len(s)) |-> <<s[i][1], 0 - s[i][2]>>]

\* _apply_rank(mongo, query, type_key, field, limit) on the documents docs that
\* find(query) returned, in their order
apply_rank(st, docs, field, limit) ==
    LET results == [i \in 1..Len(docs) |->
                      <<docs[i][2], numeric_value(get_nested(st[docs[i]], field))>>]
    IN SubSeq(sort_ranked(results), 1, IF limit < Len(results) THEN limit ELSE Len(results))

\* the str of a bot, group or user id of a command text; an id of several
\* symbols is the id of no document of the model
IdOf(part) ==
    CASE part = <<>> -> "" [] Len(part) = 1 -> part[1] [] OTHER -> "NO_SUCH_ID"

\* the target of a parameter as _build_query reads it
target_of(param, has_any) ==
    IF has_any
    THEN [i \in 1..Len(split_sep(param, ":")) |-> IdOf(split_sep(param, ":")[i])]
    ELSE IdOf(param)

\* cross_group_map.get(type_key, "disable") == "enable"
cross_enabled(a, type_key) ==
    CASE type_key = Lit("usage") -> a.usage_limit_cross_group = "enable"
      [] type_key = Lit("persona") -> a.persona_cross_group = "enable"
      [] type_key = Lit("favor") -> a.favor_cross_group = "enable"
      [] type_key = Lit("blacklist") -> a.blacklist_cross_group = "enable"
      [] OTHER -> FALSE

\* the query of a set or clear parameter, and of a get of CommandExecutor
scoped_query(a, p, param) ==
    clear_query(a.group_id, target_of(param, p.has_any), p.has_any,
                cross_enabled(a, p.type_key))

\* the query of a get parameter: execute_command calls _build_query,
\* CommandExecutor.execute its own _build_query
get_query(itp, a, p, param) ==
    IF itp = "execute_command"
    THEN build_query(a.group_id, target_of(param, p.has_any), p.has_any)
    ELSE scoped_query(a, p, param)

\* what a command returns: the collection after it, the result text, the
\* queries it built, the keys a get read and the list a rank returned
Response(st, result, queries, reads, ranked) ==
    [store |-> st, result |-> result, queries |-> queries, reads |-> reads,
     ranked |-> ranked]

RECURSIVE get_each(_, _, _, _, _, _, _)
\* the loop of a get over its parameters
get_each(itp, st, a, p, params, queries, reads) ==
    IF params = <<>> THEN Response(st, "OK", queries, reads, <<>>)
    ELSE Bind(get_query(itp, a, p, Head(params)), LAMBDA query :
         get_each(itp, st, a, p, Tail(params), Append(queries, query),
                  reads \cup matched(st, query)))

RECURSIVE clear_params(_, _, _, _, _, _)
\* the loop of a clear over its parameters
clear_params(st, clk, a, p, params, queries) ==
    IF params = <<>> THEN Response(st, "OK", queries, {}, <<>>)
    ELSE Bind(scoped_query(a, p, Head(params)), LAMBDA query :
         clear_params(
             IF p.type_key = Lit("context") /\ p.field = <<>>
             THEN clear_context(st, clk, query, a.context_pool_size).store
             ELSE apply_clear(st, clk, query, p.type_key, p.field).store,
             clk, a, p, Tail(params), Append(queries, query)))

RECURSIVE set_pairs(_, _, _, _, _, _)
\* the loop of a set over its (target, value) pairs
set_pairs(st, clk, a, p, params, queries) ==
    IF params = <<>> THEN Response(st, "OK", queries, {}, <<>>)
    ELSE Bind(scoped_query(a, p, params[1]), LAMBDA query :
         Bind(apply_set(st, clk, query, p.type_key, p.field[1], params[2]), LAMBDA r :
         IF r.error # <<>> THEN Response(st, r.error[1], queries, {}, <<>>)
         ELSE set_pairs(r.store, clk, a, p, SubSeq(params, 3, Len(params)),
                        Append(queries, query))))

\* max(1, min(30, limit))
clamp_limit(limit) == IF limit > 30 THEN 30 ELSE IF limit < 1 THEN 1 ELSE limit

\* the rank branch; order is the order in which find returns the documents
rank_branch(st, a, p, field, order) ==
    LET params == p.params
        scope == IF Len(params) = 0 THEN <<"%", ":", "%", ":", "%">> ELSE params[1]
        query == IF p.has_any THEN build_query(a.group_id, target_of(scope, TRUE), TRUE)
                 ELSE build_query(a.group_id, "all", FALSE)
        given == IF p.has_any THEN (IF Len(params) >= 2 THEN <<params[2]>> ELSE <<>>)
                 ELSE (IF Len(params) = 0 THEN <<>> ELSE <<params[1]>>)
        docs == SelectSeq(order, LAMBDA k : Matches(query, k))
    IN IF given # <<>> /\ py_int(given[1]) = <<>>
       THEN Response(st, "LIMIT_NOT_INTEGER", <<>>, {}, <<>>)
       ELSE Bind(clamp_limit(IF given = <<>> THEN 5 ELSE py_int(given[1])[1]), LAMBDA limit :
            Response(st, "OK", <<query>>, {}, apply_rank(st, docs, field, limit)))

\* the body both interpreters share, after the parse
interpret(itp, st, clk, a, p, order) ==
    IF p.action \notin {Lit("get"), Lit("set"), Lit("clear"), Lit("rank")}
       \/ p.type_key = <<>>
    THEN Response(st, "FORMAT_ERROR", <<>>, {}, <<>>)
    ELSE IF p.action = Lit("set") /\ ~Given(p.field)
    THEN Response(st, "SET_NEEDS_FIELD", <<>>, {}, <<>>)
    ELSE IF p.action = Lit("rank") /\ ~Given(p.field)
    THEN Response(st, "RANK_NEEDS_FIELD", <<>>, {}, <<>>)
    ELSE IF p.action = Lit("rank") /\ p.type_key \notin RankTypes
    THEN Response(st, "RANK_TYPE_UNSUPPORTED", <<>>, {}, <<>>)
    ELSE IF p.action = Lit("rank") /\ resolve_rank_field(p.type_key, p.field[1]) = <<>>
    THEN Response(st, "RANK_FIELD_UNSUPPORTED", <<>>, {}, <<>>)
    ELSE IF p.action = Lit("get") THEN get_each(itp, st, a, p, p.params, <<>>, {})
    ELSE IF p.action = Lit("clear") THEN clear_params(st, clk, a, p, p.params, <<>>)
    ELSE IF p.action = Lit("set")
    THEN (IF p.has_any /\ (Len(p.params) < 2 \/ Len(p.params) % 2 # 0)
          THEN Response(st, "ANY_NEEDS_PAIRS", <<>>, {}, <<>>)
          ELSE IF ~p.has_any /\ Len(p.params) % 2 # 0
          THEN Response(st, "PARAMS_NOT_PAIRED", <<>>, {}, <<>>)
          ELSE set_pairs(st, clk, a, p, p.params, <<>>))
    ELSE rank_branch(st, a, p, resolve_rank_field(p.type_key, p.field[1])[1], order)

\* execute_command that takes is_user_admin whatever its case
execute_command_text_any_case(st, clk, a, order) ==
    IF a.is_user_admin \notin {"true", "True"} THEN Response(st, "NO_ADMIN", <<>>, {}, <<>>)
    ELSE interpret("execute_command", st, clk, a, parse_command(a.user_query), order)

\* execute_command(user_query, bot_id, group_id, is_user_admin, ...) of
\* command_unified
execute_command_text(st, clk, a, order) ==
    IF a.is_user_admin # "true" THEN Response(st, "NO_ADMIN", <<>>, {}, <<>>)
    ELSE interpret("execute_command", st, clk, a, parse_command(a.user_query), order)

\* CommandExecutor.execute(user_query) of database_cli
CommandExecutor_execute(st, clk, a, order) ==
    interpret("CommandExecutor", st, clk, a, parse_command(a.user_query), order)

\* ------------------------------------------------------- process_llm_output
\* a model text is a sequence of symbols: "<", "/", ">", "[", "]", the blank
\* " ", the line feed "\n" and words (think, tool_call, warn, ...), each word
\* standing for its letters

THINK_OPEN == <<"<", "think", ">">>
THINK_CLOSE == <<"<", "/", "think", ">">>
TOOL_OPEN == <<"<", "tool_call", ">">>
TOOL_CLOSE == <<"<", "/", "tool_call", ">">>
WARN == <<"[", "warn", "]">>

\* the characters str.strip() removes
Whitespace == {" ", "\n"}

\* str.find(pat, start): the first position >= start where pat occurs, 0 for -1
find(text, pat, start) ==
    LET at(i) == SubSeq(text, i, i + Len(pat) - 1) = pat
        last == Len(text) - Len(pat) + 1
    IN IF \E i \in start..last : at(i)
       THEN CHOOSE i \in start..last : at(i) /\ \A j \in start..(i - 1) : ~at(j)
       ELSE 0

\* pat in text
contains(text, pat) == find(text, pat, 1) > 0

RECURSIVE strip(_)
\* str.strip()
strip(s) ==
    IF s = <<>> THEN s
    ELSE IF Head(s) \in Whitespace THEN strip(Tail(s))
    ELSE IF s[Len(s)] \in Whitespace THEN strip(SubSeq(s, 1, Len(s) - 1))
    ELSE s

RECURSIVE re_sub_span(_, _, _)
\* re.sub(open + '.*?' + close, '', text, flags=re.DOTALL): the leftmost open
\* that a close follows is matched with the nearest close after it, the match
\* is dropped and the scan goes on behind it
re_sub_span(text, open, close) ==
    LET i == find(text, open, 1)
        j == IF i = 0 THEN 0 ELSE find(text, close, i + Len(open))
    IN IF j = 0 THEN text
       ELSE SubSeq(text, 1, i - 1)
            \o re_sub_span(SubSeq(text, j + Len(close), Len(text)), open, close)

\* if marker in text: text = text[:text.find(marker)]
truncate_at(text, marker) ==
    LET i == find(text, marker, 1) IN
    IF i = 0 THEN text ELSE SubSeq(text, 1, i - 1)

\* an error_output of the configuration: None, a str or a list of str
TextNone == [kind |-> "none", str |-> <<>>, list |-> <<>>]
TextStr(s) == [kind |-> "str", str |-> s, list |-> <<>>]
TextList(l) == [kind |-> "list", str |-> <<>>, list |-> l]

\* process_llm_output.random_message: the set of texts the call can return
llm_random_message(messages) ==
    IF messages.kind = "list"
    THEN (IF messages.list = <<>> THEN {<<>>}
          ELSE {messages.list[i] : i \in 1..Len(messages.list)})
    ELSE {messages.str}

\* process_llm_response without the truncation at a left-over closing marker
process_llm_response_pairs_only(text, error_output) ==
    IF text = <<>> THEN llm_random_message(error_output)
    ELSE LET t1 == re_sub_span(text, THINK_OPEN, THINK_CLOSE)
             t2 == re_sub_span(t1, TOOL_OPEN, TOOL_CLOSE)
             t5 == strip(t2)
         IN IF t5 = <<>> THEN llm_random_message(error_output) ELSE {t5}

\* process_llm_response: the set of texts the call can return
process_llm_response(text, error_output) ==
    IF text = <<>> THEN llm_random_message(error_output)
    ELSE LET t1 == re_sub_span(text, THINK_OPEN, THINK_CLOSE)
             t2 == re_sub_span(t1, TOOL_OPEN, TOOL_CLOSE)
             t3 == truncate_at(t2, THINK_CLOSE)
             t4 == truncate_at(t3, TOOL_CLOSE)
             t5 == strip(t4)
         IN IF t5 = <<>> THEN llm_random_message(error_output) ELSE {t5}

\* process_llm_output.main: the set of results the call can return
llm_main(llm_output, error_output) ==
    {[system_output |-> s,
      review_result |-> IF contains(llm_output, WARN) THEN "warn" ELSE "pass"] :
        s \in process_llm_response(llm_output, error_output)}

\* ------------------------------------------------ process_structured_output
\* a JSON value is a typed value (IntV, BoolV, StrV, ListV, NoneV for null, a
\* float, a dict); a dict is the sequence of its items [key, value] in
\* insertion order; a key is a sequence of symbols in which a schema field
\* name is one symbol (":text" is <<":", "text">>, "context" <<"con", "text">>)

\* a float of n tenths
FloatV(n) == [kind |-> "float", n |-> n, s |-> <<>>]

DictV(items) == [kind |-> "dict", n |-> 0, s |-> items]

\* FIELD_DEFINITIONS.keys()
FIELD_NAMES ==
    <<"text", "think_output", "image_info", "timer", "scheduled_events", "leap_events">>

FieldSet == {FIELD_NAMES[i] : i \in 1..Len(FIELD_NAMES)}

\* FIELD_DEFINITIONS[field]["required"]
required(field) == field \in {"text", "think_output"}

\* FIELD_DEFINITIONS[field]["type"]: the Python types, a bool being an int
expected_type(field) ==
    CASE field = "image_info" -> {"list"}
      [] field = "timer" -> {"int", "bool", "float"}
      [] OTHER -> {"str"}

EMPTY_VALUES(field) ==
    CASE field = "image_info" -> ListV(<<>>)
      [] field = "timer" -> NoneV
      [] OTHER -> StrV(<<>>)

\* ValidationResult()
NewResult == [is_valid |-> TRUE, errors |-> <<>>, warnings |-> <<>>]

add_error(result, field, message, value) ==
    [result EXCEPT !.is_valid = FALSE,
                   !.errors = Append(@, [field |-> field, message |-> message,
                                         value |-> value])]

add_warning(result, key) ==
    [result EXCEPT !.warnings = Append(@, [field |-> key, message |-> "UNKNOWN_FIELD"])]

\* _validate_type: "" for (True, None), else the error
validate_type(value, field) ==
    IF value = NoneV THEN ""
    ELSE IF value.kind \notin expected_type(field) THEN "WRONG_TYPE"
    ELSE ""

\* _validate_timer_value
validate_timer_value(value) ==
    IF value = NoneV THEN ""
    ELSE IF value.kind \notin {"int", "bool", "float"} THEN "TIMER_NOT_A_NUMBER"
    ELSE IF value.n < 0 THEN "TIMER_NEGATIVE"
    ELSE ""

\* _validate_image_info
validate_image_info(value) ==
    IF value = NoneV THEN ""
    ELSE IF value.kind # "list" THEN "IMAGE_INFO_NOT_A_LIST"
    ELSE IF \E i \in 1..Len(value.s) : value.s[i].kind # "str"
         THEN "IMAGE_INFO_ITEM_NOT_A_STRING"
    ELSE ""

\* validate_field returning the offending value instead of the empty one
validate_field_keeps(field_name, value, result) ==
    LET special ==
            CASE field_name = "timer" -> validate_timer_value(value)
              [] field_name = "image_info" -> validate_image_info(value)
              [] OTHER -> ""
    IN IF required(field_name) /\ value = NoneV
       THEN [value |-> value, result |-> add_error(result, field_name, "REQUIRED_MISSING", NoneV)]
       ELSE IF value = NoneV THEN [value |-> EMPTY_VALUES(field_name), result |-> result]
       ELSE IF special # ""
       THEN [value |-> value, result |-> add_error(result, field_name, special, value)]
       ELSE IF validate_type(value, field_name) # ""
       THEN [value |-> value, result |-> add_error(result, field_name, "WRONG_TYPE", value)]
       ELSE [value |-> value, result |-> result]

\* validate_field on a field of the schema (main passes no other name): the
\* processed value and the validation result
validate_field(field_name, value, result) ==
    LET bad(message, shown) ==
            [value |-> EMPTY_VALUES(field_name),
             result |-> add_error(result, field_name, message, shown)]
        special ==
            CASE field_name = "timer" -> validate_timer_value(value)
              [] field_name = "image_info" -> validate_image_info(value)
              [] OTHER -> ""
    IN IF required(field_name) /\ value = NoneV THEN bad("REQUIRED_MISSING", NoneV)
       ELSE IF value = NoneV THEN [value |-> EMPTY_VALUES(field_name), result |-> result]
       ELSE IF special # "" THEN bad(special, value)
       ELSE IF validate_type(value, field_name) # "" THEN bad("WRONG_TYPE", value)
       ELSE [value |-> value, result |-> result]

\* dict.get(key): None when the key is missing
dict_get(items, key) ==
    IF \E i \in 1..Len(items) : items[i].key = key
    THEN items[CHOOSE i \in 1..Len(items) : items[i].key = key].value
    ELSE NoneV

\* d[key] = value: a present key keeps its place
dict_put(items, key, value) ==
    IF \E i \in 1..Len(items) : items[i].key = key
    THEN [i \in 1..Len(items) |->
            IF items[i].key = key THEN [key |-> key, value |-> value] ELSE items[i]]
    ELSE Append(items, [key |-> key, value |-> value])

\* field in key
field_in_key(field, key) == \E i \in 1..Len(key) : key[i] = field

\* _normalize_field_key; known_fields is the set in its iteration order
normalize_field_key(key, known_fields) ==
    LET hits == {i \in 1..Len(known_fields) : field_in_key(known_fields[i], key)} IN
    IF \E i \in 1..Len(known_fields) : key = <<known_fields[i]>> THEN key
    ELSE IF hits # {} THEN <<known_fields[CHOOSE i \in hits : \A j \in hits : i <= j]>>
    ELSE key

RECURSIVE normalize_from(_, _, _)
normalize_from(items, known_fields, normalized) ==
    IF items = <<>> THEN normalized
    ELSE normalize_from(Tail(items), known_fields,
            dict_put(normalized, normalize_field_key(Head(items).key, known_fields),
                     Head(items).value))

\* _normalize_dict_keys
normalize_dict_keys(data, known_fields) == normalize_from(data, known_fields, <<>>)

\* a JSON text is a sequence of tokens: the punctuation and the atoms
Punct(c) == [kind |-> "punct", n |-> 0, s |-> <<c>>]

RECURSIVE json_members(_, _)
\* the members key : value [, members] of a JSON object; a repeated key
\* takes the last value; <<>> when the text is malformed, else <<items>>
json_members(toks, items) ==
    IF Len(toks) < 3 \/ toks[1].kind # "str" \/ toks[2] # Punct(":")
       \/ toks[3].kind = "punct"
    THEN <<>>
    ELSE LET now_items == dict_put(items, toks[1].s, toks[3]) IN
         IF Len(toks) = 3 THEN <<now_items>>
         ELSE IF toks[4] # Punct(",") THEN <<>>
         ELSE json_members(SubSeq(toks, 5, Len(toks)), now_items)

\* json.loads: <<>> for a JSONDecodeError, else <<value>>
json_loads(toks) ==
    IF Len(toks) = 1 /\ toks[1].kind # "punct" THEN <<toks[1]>>
    ELSE IF Len(toks) >= 2 /\ toks[1] = Punct("{") /\ toks[Len(toks)] = Punct("}")
    THEN (IF Len(toks) = 2 THEN <<DictV(<<>>)>>
          ELSE LET m == json_members(SubSeq(toks, 2, Len(toks) - 1), <<>>) IN
               IF m = <<>> THEN <<>> ELSE <<DictV(m[1])>>)
    ELSE <<>>

\* extract_structured_output: <<>> for None, else <<dict>>; input_data is a
\* value that is no dict, or the dict of its items
extract_structured_output(input_data, known_fields) ==
    IF input_data.kind # "dict" THEN <<>>
    ELSE LET output == dict_get(input_data.s, <<"output">>) IN
         IF output = NoneV THEN <<>>
         ELSE IF output.kind = "dict"
         THEN <<normalize_dict_keys(output.s, known_fields)>>
         ELSE IF output.kind = "str"
         THEN LET parsed == json_loads(output.s) IN
              IF parsed # <<>> /\ parsed[1].kind = "dict"
              THEN <<normalize_dict_keys(parsed[1].s, known_fields)>>
              ELSE <<>>
         ELSE <<>>

RECURSIVE validate_fields(_, _, _, _)
\* the loop of main over FIELD_DEFINITIONS.keys(): the processed values and
\* the validation result
validate_fields(fields, output, values, result) ==
    IF fields = <<>> THEN [values |-> values, result |-> result]
    ELSE LET r == validate_field(Head(fields), dict_get(output, <<Head(fields)>>), result)
         IN validate_fields(Tail(fields), output,
                            [values EXCEPT ![Head(fields)] = r.value], r.result)

RECURSIVE warn_unknown(_, _)
\* the loop of main over output.keys()
warn_unknown(items, result) ==
    IF items = <<>> THEN result
    ELSE warn_unknown(Tail(items),
            IF \E f \in FieldSet : Head(items).key = <<f>> THEN result
            ELSE add_warning(result, Head(items).key))

\* process_structured_output.main
structured_main(structured_output, known_fields) ==
    LET empty == [f \in FieldSet |-> EMPTY_VALUES(f)]
        output == extract_structured_output(structured_output, known_fields)
        done == IF output # <<>>
                THEN LET v == validate_fields(FIELD_NAMES, output[1], empty, NewResult)
                     IN [values |-> v.values,
                         result |-> warn_unknown(output[1], v.result)]
                ELSE [values |-> empty,
                      result |-> add_error(NewResult, "output", "NO_OUTPUT", NoneV)]
    IN [text |-> done.values["text"],
        think_output |-> done.values["think_output"],
        image_info |-> done.values["image_info"],
        timer |-> done.values["timer"],
        scheduled_events |-> done.values["scheduled_events"],
        leap_events |-> done.values["leap_events"],
        is_valid |-> done.result.is_valid,
        validation_errors |-> done.result.errors,
        validation_warnings |-> done.result.warnings]

\* -------------------------------------------------------------- history_set
\* the documents are those of the command interpreter: values carry their
\* types, so that an update operator can meet a field of the wrong type

\* HistoryUpdater.create_history_entry
create_history_entry(clk, user_name, user_query, output) ==
    [user_name |-> user_name, user_query |-> user_query, output |-> output,
     created_at |-> clk]

\* HistoryUpdater.update_history: update_one with $push, $inc and $set,
\* upsert=True; the server rejects a $push on a field that is no array and a
\* $inc on a value that is no number (WriteError, nothing is written)
update_history(st, clk, group_id, user_id, history_entry) ==
    LET k == Key(group_id, user_id)
        old == IF k \in DOMAIN st THEN st[k] ELSE <<>>
        hist == IF "history_entries" \in DOMAIN old THEN old["history_entries"]
                ELSE ListV(<<>>)
        stats == IF "history_stats" \in DOMAIN old THEN old["history_stats"] ELSE <<>>
        total == IF IsDict(stats) /\ "total_histories" \in DOMAIN stats
                 THEN stats["total_histories"] ELSE IntV(0)
        pushed == ListV(Append(hist.s, history_entry))
        counted == ("total_histories" :> IntV(total.n + 1)) @@ stats
    IN IF hist.kind # "list" \/ ~IsDict(stats) \/ total.kind # "int"
       THEN [store |-> st, raised |-> TRUE, total_histories |-> IntV(0)]
       ELSE [store |-> (k :> ([history_entries |-> pushed, history_stats |-> counted,
                               updated_at |-> TimeV(clk)] @@ old)) @@ st,
             raised |-> FALSE, total_histories |-> IntV(total.n + 1)]

\* the statistics of main: total_usage read with get_field, each counter
\* raised, written with update_field (upsert); a counter that is no number
\* raises inside the try block and the statistics stay as they are
update_total_usage(st, clk, group_id, user_id, token_usage) ==
    LET k == Key(group_id, user_id)
        old == IF k \in DOMAIN st THEN st[k] ELSE <<>>
        zero == [total_chat_count |-> IntV(0), total_tokens |-> IntV(0),
                 total_prompt_token |-> IntV(0), total_output_token |-> IntV(0)]
        current == IF "total_usage" \in DOMAIN old /\ IsDict(old["total_usage"])
                   THEN old["total_usage"] ELSE zero
        at(f) == IF f \in DOMAIN current THEN current[f] ELSE IntV(0)
        sound == \A f \in DOMAIN zero : at(f).kind \in {"int", "bool"}
        new_total_usage ==
            [total_chat_count |-> IntV(at("total_chat_count").n + 1),
             total_tokens |-> IntV(at("total_tokens").n + token_usage.total_tokens),
             total_prompt_token |->
                 IntV(at("total_prompt_token").n + token_usage.prompt_tokens),
             total_output_token |->
                 IntV(at("total_output_token").n + token_usage.completion_tokens)]
    IN IF ~sound THEN st
       ELSE (k :> ([total_usage |-> new_total_usage, updated_at |-> TimeV(clk)] @@ old))
            @@ st

\* history_set.main; a is the record of its arguments: output is a dict (a
\* failed answer holds the key error), image_info the list of descriptions
\* that main writes behind the user's text
history_set_main(st, clk, a) ==
    IF GetOpt(a.output, "error") = <<a.error_output>>
    THEN [store |-> st, raised |-> FALSE, skipped |-> TRUE, history_entry |-> <<>>,
          total_histories |-> IntV(0)]
    ELSE Bind(create_history_entry(clk, a.user_name,
                  [text |-> a.user_query, images |-> a.image_info], a.output),
              LAMBDA history_entry :
         Bind(update_history(st, clk, a.group_id, a.user_id, history_entry),
              LAMBDA update_result :
         [store |-> IF update_result.raised THEN st
                    ELSE update_total_usage(update_result.store, clk, a.group_id,
                                            a.user_id, a.token_usage),
          raised |-> update_result.raised, skipped |-> FALSE,
          history_entry |-> <<history_entry>>,
          total_histories |-> update_result.total_histories]))

\* ------------------------------------------------------------------ actions
\* no concurrent callers
NoProcs == <<>>

Idle == [pc |-> "idle"]

NoUpd == [op |-> "none"]

\* the hit counts of a document's memory stay below the bound
HitsBelowBound(st, group_id, user_id) ==
    IF ~Exists(st, group_id, user_id) THEN TRUE
    ELSE LET m == Get(st[Key(group_id, user_id)], "long_term_memory", <<>>)
         IN \A i \in 1..Len(m) : m[i].hit_count < MaxHits

\* the block counts of a user's documents stay below the bound
BlockCountBelowBound(st, user_id) ==
    \A k \in DOMAIN st :
        k[2] = user_id /\ "block_stats" \in DOMAIN st[k]
            => st[k]["block_stats"].block_count < MaxBlockCount

\* a caller invokes main(...) with arguments inp; budget bounds the calls;
\* before remembers the document the call found (<<>> when there was none)
StartRun(Inputs, budget) ==
    /\ ctx.pc = "idle"
    /\ ops < budget
    /\ ops' = ops + 1
    /\ \E inp \in Inputs :
         /\ HitsBelowBound(store, inp.group_id, inp.user_id)
         /\ ctx' = [pc |-> "step1", inp |-> inp, executed |-> <<>>,
                    before |-> IF Exists(store, inp.group_id, inp.user_id)
                               THEN <<store[Key(inp.group_id, inp.user_id)]>> ELSE <<>>]
    /\ upd' = NoUpd
    /\ UNCHANGED <<store, now, coll, procs>>

\* main: step 1 and the early return after it
Step1 ==
    /\ ctx.pc = "step1"
    /\ \E pick \in Groups :
         \E r \in {step_1_blacklist_check(store, now, ctx.inp, pick)} :
            LET c == [step1_result |-> Sans(r), executed |-> Append(ctx.executed, 1)] @@ ctx
            IN /\ store' = r.store
               /\ ctx' = IF r.continue_to_step_2 THEN [pc |-> "step2"] @@ c
                         ELSE [pc |-> "done",
                               result |-> main_return_1(ctx.inp, Sans(r))] @@ c
    /\ UNCHANGED <<now, upd, ops, coll, procs>>

\* step 2 without the early return after it
Step2_NoEarlyReturn ==
    /\ ctx.pc = "step2"
    /\ \E choice \in random_message(ctx.inp.overinput_output) :
         \E r \in {step_2_input_length_check(ctx.inp.user_query, ctx.inp.max_input_size,
                                            ctx.inp.overinput_output, choice)} :
            ctx' = [pc |-> "step3", step2_result |-> r,
                    executed |-> Append(ctx.executed, 2)] @@ ctx
    /\ UNCHANGED <<store, now, upd, ops, coll, procs>>

\* main: step 2 and the early return after it
Step2 ==
    /\ ctx.pc = "step2"
    /\ \E choice \in random_message(ctx.inp.overinput_output) :
         \E r \in {step_2_input_length_check(ctx.inp.user_query, ctx.inp.max_input_size,
                                            ctx.inp.overinput_output, choice)} :
            LET c == [step2_result |-> r, executed |-> Append(ctx.executed, 2)] @@ ctx
            IN ctx' = IF r.continue_to_step_3 THEN [pc |-> "step3"] @@ c
                      ELSE [pc |-> "done",
                            result |-> main_return_2(ctx.inp, ctx.step1_result, r)] @@ c
    /\ UNCHANGED <<store, now, upd, ops, coll, procs>>

\* main: step 3 and the early return after it
Step3 ==
    /\ ctx.pc = "step3"
    /\ \E pick \in Groups, choice \in random_message(ctx.inp.overusage_output) :
         \E r \in {step_3_usage_limit_check(store, now, ctx.inp, pick, choice)} :
            LET c == [step3_result |-> Sans(r), executed |-> Append(ctx.executed, 3)] @@ ctx
            IN /\ store' = r.store
               /\ ctx' = IF r.continue_to_step_4 THEN [pc |-> "step4"] @@ c
                         ELSE [pc |-> "done",
                               result |-> main_return_3(ctx.inp, ctx.step1_result,
                                                        ctx.step2_result, Sans(r))] @@ c
    /\ UNCHANGED <<now, upd, ops, coll, procs>>

\* main: step 4, which starts from main_prompt
Step4 ==
    /\ ctx.pc = "step4"
    /\ \E pick \in Groups :
         \E r \in {step_4_favor_prompt(store, now, ctx.inp, ctx.inp.main_prompt, pick)} :
            /\ store' = r.store
            /\ ctx' = [pc |-> "step5", step4_result |-> Sans(r),
                       current_prompt |-> r.enhanced_main_prompt,
                       executed |-> Append(ctx.executed, 4)] @@ ctx
    /\ UNCHANGED <<now, upd, ops, coll, procs>>

Step5 ==
    /\ ctx.pc = "step5"
    /\ \E pick \in Groups :
         \E r \in {step_5_persona_prompt(store, now, ctx.inp, ctx.current_prompt, pick)} :
            /\ store' = r.store
            /\ ctx' = [pc |-> "step6", step5_result |-> Sans(r),
                       current_prompt |-> r.enhanced_main_prompt,
                       executed |-> Append(ctx.executed, 5)] @@ ctx
    /\ UNCHANGED <<now, upd, ops, coll, procs>>

Step6 ==
    /\ ctx.pc = "step6"
    /\ \E pick \in Groups :
         \E r \in {step_6_context_prompt(store, now, ctx.inp, ctx.current_prompt, pick)} :
            /\ store' = r.store
            /\ ctx' = [pc |-> "step7", step6_result |-> Sans(r),
                       current_prompt |-> r.enhanced_main_prompt,
                       executed |-> Append(ctx.executed, 6)] @@ ctx
    /\ UNCHANGED <<now, upd, ops, coll, procs>>

\* main: step 7 and the final return
Step7 ==
    /\ ctx.pc = "step7"
    /\ \E pick \in Groups :
         \E r \in {step_7_memory_prompt(store, now, ctx.inp, ctx.current_prompt, pick)} :
            /\ store' = r.store
            /\ ctx' = [pc |-> "done", step7_result |-> Sans(r),
                       result |-> main_return_7(ctx, Sans(r)),
                       executed |-> Append(ctx.executed, 7)] @@ ctx
    /\ UNCHANGED <<now, upd, ops, coll, procs>>

\* the caller has the returned dict; the process is over
Return ==
    /\ ctx.pc = "done"
    /\ ctx' = Idle
    /\ UNCHANGED <<store, now, upd, ops, coll, procs>>

\* a caller invokes blacklist_set.main(...) with arguments a
BlacklistSet(Args, budget) ==
    /\ ctx.pc = "idle"
    /\ ops < budget
    /\ ops' = ops + 1
    /\ \E a \in Args :
         /\ BlockCountBelowBound(store, a.user_id)
         /\ \E r \in {blacklist_set_main(store, now, a)} :
               /\ store' = r.store
               /\ upd' = [op |-> "blacklist_set", args |-> a, result |-> Sans(r)]
    /\ UNCHANGED <<now, ctx, coll, procs>>

\* a caller invokes favor_set.main(...) after a run of the workflow on the
\* document; favor_value is the value that run returned
FavorSet(Args, budget) ==
    /\ ctx.pc = "idle"
    /\ ops < budget
    /\ ops' = ops + 1
    /\ \E args \in Args :
         /\ Exists(store, args.group_id, args.user_id)
         /\ \E a \in {[favor_value |->
                           Get(store[Key(args.group_id, args.user_id)], "favor_value", 0)]
                      @@ args} :
            \E r \in {favor_set_main(store, now, a)} :
               /\ store' = r.store
               /\ upd' = [op |-> "favor_set", args |-> a, result |-> Sans(r)]
    /\ UNCHANGED <<now, ctx, coll, procs>>

\* an administrator's command is executed
Command(Args, budget) ==
    /\ ctx.pc = "idle"
    /\ ops < budget
    /\ ops' = ops + 1
    /\ \E a \in Args :
         /\ store' = execute_command(store, now, a)
         /\ upd' = [op |-> "command", args |-> a, read |-> command_reads(store, a)]
    /\ UNCHANGED <<now, ctx, coll, procs>>

\* the server's clock (datetime.utcnow()) advances within the day
Tick ==
    /\ ctx.pc = "idle"
    /\ now.time < MaxClock
    /\ now' = [now EXCEPT !.time = @ + 1]
    /\ upd' = NoUpd
    /\ UNCHANGED <<store, ctx, ops, coll, procs>>

\* midnight passes on the server's clock
NewDay ==
    /\ ctx.pc = "idle"
    /\ now.time < MaxClock
    /\ now.day < 1 + MaxDays
    /\ now' = [now EXCEPT !.time = @ + 1, !.day = @ + 1]
    /\ upd' = NoUpd
    /\ UNCHANGED <<store, ctx, ops, coll, procs>>

\* ------------------------------------------------------------------- inputs
\* main's arguments at their declared defaults
DefaultInp ==
    [group_id |-> "g1", user_id |-> "u1", user_query |-> <<"a">>,
     main_prompt |-> <<"MAIN">>,
     favor_cross_group |-> "disable", persona_cross_group |-> "disable",
     blacklist_cross_group |-> "disable", usage_limit_cross_group |-> "disable",
     blacklist_system |-> "disable", is_user_admin |-> "false",
     blacklist_restrict_admin_users |-> "disable",
     warn_lifespan |-> <<"0">>, block_lifespan |-> <<"0">>, timestamp |-> 0,
     max_input_size |-> <<"0">>, overinput_output |-> PoolNone,
     usage_limit_system |-> "disable", usage_restrict_admin_users |-> "disable",
     usage_limit |-> <<"0">>,
     year |-> <<"1", "9", "7", "0">>, month |-> <<"0", "1">>, day |-> <<"0", "1">>,
     overusage_output |-> PoolNone,
     favor_system |-> "disable", favor_prompts |-> <<>>, favor_split_points |-> <<>>,
     persona_system |-> "disable",
     context_system |-> "disable", context_pool_size |-> <<"0">>,
     memory_system |-> "disable", memory_retrieval_number |-> <<"5">>]

Switch == {"enable", "disable"}

\* the server's clock when the collection is first used
Clock0 == [year |-> 2024, month |-> 1, day |-> 1, time |-> 0]

CallerYear == <<"2", "0", "2", "4">>

\* a document first created by get_document and since given a favor value, a
\* persona, memories and a history by the operations that write those fields
SeedDoc ==
    [favor_value |-> 5, last_favor_change |-> 1,
     persona_attributes |->
         [get_default_persona_attributes EXCEPT !["basic_info"] = "student",
                                                !["dislikes"] = "noise"],
     daily_usage_count |-> 0,
     long_term_memory |->
         <<[kind |-> "dict", text |-> <<>>, user_input |-> <<"a", " ", "b">>,
            memory_description |-> <<"likes a and b">>, hit_count |-> 0],
           [kind |-> "dict", text |-> <<>>, user_input |-> <<"c">>,
            memory_description |-> <<"likes c">>, hit_count |-> 0]>>,
     history_entries |->
         <<[created_at |-> "2024-01-01T00:00:00", user_name |-> "alice",
            user_query |-> "hello", output |-> "hi"],
           [created_at |-> "2024-01-01T00:01:00", user_name |-> "alice",
            user_query |-> "bye", output |-> "see you"]>>,
     history_stats |-> [total_histories |-> 2],
     total_usage |-> [total_chat_count |-> 2, total_tokens |-> 30,
                      total_prompt_token |-> 20, total_output_token |-> 10]]
      @@ build_document_from_template(
             [favor |-> "disable", persona |-> "disable", blacklist |-> "disable",
              usage_limit |-> "disable"], <<>>, Clock0)

SeedStores == {<<>>, Key("g1", "u1") :> SeedDoc}

\* the workflow with every stage in play
FlowInputs ==
    {[DefaultInp EXCEPT
        !.group_id = g, !.user_query = q,
        !.blacklist_system = "enable", !.blacklist_restrict_admin_users = "enable",
        !.warn_lifespan = <<"1">>, !.block_lifespan = <<"1">>, !.timestamp = 0,
        !.max_input_size = <<"2">>, !.overinput_output = PoolStr("too long"),
        !.usage_limit_system = "enable", !.usage_restrict_admin_users = "enable",
        !.usage_limit = <<"0">>, !.year = CallerYear, !.month = <<"1">>, !.day = d,
        !.overusage_output = PoolList(<<"enough", "tomorrow">>),
        !.favor_system = aug, !.favor_prompts = <<"low", "mid", "high">>,
        !.favor_split_points = <<0, 10>>,
        !.persona_system = aug,
        !.context_system = aug, !.context_pool_size = <<"1">>,
        !.memory_system = aug, !.memory_retrieval_number = <<"1">>]
     : g \in CallGroups, q \in {<<"a">>, <<"A", " ", "b">>},
       d \in {<<"1">>, <<"2">>}, aug \in Switch}

FlowUpdates ==
    {[blacklist_system |-> "enable", warn_lifespan |-> <<"1">>, warn_count |-> <<"1">>,
      timestamp |-> 0, group_id |-> g, user_id |-> "u1",
      blacklist_cross_group |-> x, block_status |-> "True"]
     : g \in CallGroups, x \in Switch}

\* ----------------------------------------------------------- specifications
Init ==
    /\ store \in SeedStores
    /\ now = Clock0
    /\ ctx = Idle
    /\ upd = NoUpd
    /\ ops = 0
    /\ coll = {}
    /\ procs = NoProcs

StartFlow == StartRun(FlowInputs, MaxOps)

UpdateFlow == BlacklistSet(FlowUpdates, MaxOps)

Next ==
    \/ StartFlow \/ Step1 \/ Step2 \/ Step3 \/ Step4 \/ Step5 \/ Step6 \/ Step7
    \/ Return \/ UpdateFlow \/ Tick \/ NewDay

Spec == Init /\ [][Next]_vars

\* the stages of main
RunSteps == Step1 \/ Step2 \/ Step3 \/ Step4 \/ Step5 \/ Step6 \/ Step7

\* a call of main has started and not yet returned
RunUnderWay == ctx.pc \notin {"idle", "done"}

\* main is straight-line code: a call under way executes its next stage. This
\* is weak fairness of RunSteps, with ENABLED <<RunSteps>>_vars written out as
\* RunUnderWay (the stage at ctx.pc is enabled and changes ctx.pc)
SpecLive ==
    Init /\ [][Next]_vars /\ ([]<>(~RunUnderWay) \/ []<><<RunSteps>>_vars)

\* the input-length gate alone: the other stages at their defaults (disabled)
LenInputs ==
    {[DefaultInp EXCEPT !.user_query = q, !.max_input_size = mx, !.overinput_output = o]
     : q \in {<<>>, <<"a">>, <<"a", "b">>, <<"a", " ", "b">>},
       mx \in {<<"0">>, <<"1">>, <<"2">>, <<"3">>, <<"-", "1">>, <<>>, <<" ", "2", " ">>,
               <<"a">>},
       o \in {PoolNone, PoolList(<<"too long", "tl;dr">>)}}

StartLen == StartRun(LenInputs, MaxOps)

NextLen ==
    \/ StartLen \/ Step1 \/ Step2 \/ Step3 \/ Step4 \/ Step5 \/ Step6 \/ Step7 \/ Return

SpecLen == Init /\ [][NextLen]_vars

\* the blacklist gate and the blacklist update step; a second user's document
\* stands by
BlackTimes ==
    {0, TicksPerSec, 30 * TicksPerSec, 30 * TicksPerSec + 1, 60 * TicksPerSec,
     61 * TicksPerSec}

BlackInputs ==
    {[DefaultInp EXCEPT
        !.group_id = g, !.blacklist_cross_group = x,
        !.blacklist_system = "enable", !.blacklist_restrict_admin_users = "enable",
        !.warn_lifespan = <<"1">>, !.block_lifespan = <<"6", "0">>, !.timestamp = ts]
     : g \in CallGroups, x \in Switch, ts \in BlackTimes}

BlackUpdates ==
    {[blacklist_system |-> "enable", warn_lifespan |-> <<"1">>, warn_count |-> <<"2">>,
      timestamp |-> ts, group_id |-> g, user_id |-> "u1",
      blacklist_cross_group |-> x, block_status |-> b]
     : g \in CallGroups, x \in Switch, b \in {"True", "False"}, ts \in {0, TicksPerSec}}

BystanderDoc ==
    build_document_from_template(
        [favor |-> "disable", persona |-> "disable", blacklist |-> "disable",
         usage_limit |-> "disable"], <<>>, Clock0)

InitBlack ==
    /\ store \in {Key("g1", "u2") :> BystanderDoc,
                  Key("g1", "u2") :> BystanderDoc @@ Key("g1", "u1") :> SeedDoc}
    /\ now = Clock0
    /\ ctx = Idle
    /\ upd = NoUpd
    /\ ops = 0
    /\ coll = {}
    /\ procs = NoProcs

StartBlack == StartRun(BlackInputs, MaxBlackOps)

UpdateBlack == BlacklistSet(BlackUpdates, MaxBlackOps)

NextBlack ==
    \/ StartBlack \/ Step1 \/ Step2 \/ Step3 \/ Step4 \/ Step5 \/ Step6 \/ Step7
    \/ Return \/ UpdateBlack \/ Tick

SpecBlack == InitBlack /\ [][NextBlack]_vars

\* the usage gate over the days
UsageInputs ==
    {[DefaultInp EXCEPT
        !.group_id = g,
        !.usage_limit_system = "enable", !.usage_restrict_admin_users = "enable",
        !.usage_limit = l, !.year = CallerYear, !.month = <<"1">>, !.day = d,
        !.overusage_output = o]
     : g \in CallGroups, l \in {<<"0">>, <<"3">>}, d \in {<<"1">>, <<"2">>},
       o \in {PoolNone, PoolList(<<"enough", "tomorrow">>)}}

StartUsage == StartRun(UsageInputs, MaxUsageRuns)

NextUsage ==
    \/ StartUsage \/ Step1 \/ Step2 \/ Step3 \/ Step4 \/ Step5 \/ Step6 \/ Step7
    \/ Return \/ NewDay

SpecUsage == Init /\ [][NextUsage]_vars

\* the two gates under every setting of their switches, for admins and others
SkipInputs ==
    {[DefaultInp EXCEPT
        !.group_id = g, !.is_user_admin = adm,
        !.blacklist_system = bs, !.blacklist_restrict_admin_users = br,
        !.warn_lifespan = <<"1">>, !.block_lifespan = <<"1">>,
        !.usage_limit_system = us, !.usage_restrict_admin_users = ur,
        !.usage_limit = <<"1">>, !.year = CallerYear, !.month = <<"1">>, !.day = <<"1">>]
     : g \in CallGroups, adm \in {"true", "false"},
       bs \in Switch, br \in Switch, us \in Switch, ur \in Switch}

StartSkip == StartRun(SkipInputs, MaxOps)

NextSkip ==
    \/ StartSkip \/ Step1 \/ Step2 \/ Step3 \/ Step4 \/ Step5 \/ Step6 \/ Step7
    \/ Return \/ UpdateFlow \/ Tick

SpecSkip == Init /\ [][NextSkip]_vars

\* first touches under every setting of the cross-group flags; the favor
\* stage is the one that resolves the document
SiblingDoc ==
    [SeedDoc EXCEPT !.favor_value = 7, !.last_favor_change = 2,
                    !.daily_usage_count = 2,
                    !.block_stats = [block_status |-> TRUE, block_count |-> 1,
                                     last_operate_time |-> Clock0]]

InheritInputs ==
    {[DefaultInp EXCEPT
        !.group_id = g,
        !.favor_cross_group = xf, !.persona_cross_group = xp,
        !.blacklist_cross_group = xb, !.usage_limit_cross_group = xu,
        !.favor_system = "enable", !.favor_prompts = <<"low", "mid", "high">>,
        !.favor_split_points = <<0, 10>>]
     : g \in Groups, xf \in Switch, xp \in Switch, xb \in Switch, xu \in Switch}

InitInherit ==
    /\ store \in {<<>>, Key("g1", "u1") :> SiblingDoc}
    /\ now = Clock0
    /\ ctx = Idle
    /\ upd = NoUpd
    /\ ops = 0
    /\ coll = {}
    /\ procs = NoProcs

StartInherit == StartRun(InheritInputs, MaxOps)

NextInherit ==
    \/ StartInherit \/ Step1 \/ Step2 \/ Step3 \/ Step4 \/ Step5 \/ Step6 \/ Step7
    \/ Return \/ UpdateFlow

SpecInherit == InitInherit /\ [][NextInherit]_vars

\* the favor updates, the administrator's commands and the workflow over
\* documents of two groups and their template
TemplateDoc == create_template_from_source(<<>>, "u1", SeedDoc, Clock0).doc

FavorStores ==
    {Key("g1", "u1") :> SeedDoc,
     (Key("g1", "u1") :> SeedDoc) @@ (Key("g3", "u1") :> SiblingDoc)
        @@ (Key(TEMPLATE_GROUP_ID, "u1") :> TemplateDoc)}

FavorJudges == {<<"3", " ", "7">>, <<"0">>, <<"1", "2">>, <<>>}

FavorUpdates ==
    {[favor_cross_group |-> x, favor_judge |-> j, group_id |-> g, user_id |-> "u1"]
     : x \in {0, 1}, j \in FavorJudges, g \in CallGroups}

Commands ==
    {[action |-> act, type_key |-> "favor", has_any |-> FALSE, params |-> <<pa>>,
      group_id |-> g, is_user_admin |-> adm, favor_cross_group |-> x]
     : act \in {"get", "clear"}, pa \in {"all", "u1"}, g \in CallGroups,
       adm \in {"true", "false"}, x \in Switch}
    \cup
    {[action |-> "clear", type_key |-> "favor", has_any |-> TRUE, params |-> <<pa>>,
      group_id |-> g, is_user_admin |-> "true", favor_cross_group |-> "disable"]
     : pa \in {<<"%", "%", "%">>, <<"%", TEMPLATE_GROUP_ID, "u1">>, <<"", "g1">>},
       g \in CallGroups}
    \cup
    {[action |-> "get", type_key |-> "favor", has_any |-> TRUE,
      params |-> <<<<"%", "%", "u1">>>>, group_id |-> "g1", is_user_admin |-> "true",
      favor_cross_group |-> "disable"]}

InitFavor ==
    /\ store \in FavorStores
    /\ now = Clock0
    /\ ctx = Idle
    /\ upd = NoUpd
    /\ ops = 0
    /\ coll = {}
    /\ procs = NoProcs

FavorFlow == FavorSet(FavorUpdates, MaxOps)

CommandFlow == Command(Commands, MaxOps)

NextFavor ==
    \/ StartFlow \/ Step1 \/ Step2 \/ Step3 \/ Step4 \/ Step5 \/ Step6 \/ Step7
    \/ Return \/ UpdateFlow \/ FavorFlow \/ CommandFlow

SpecFavor == InitFavor /\ [][NextFavor]_vars

\* the favor stage over favor values, prompt lists and split points
StageValues == {-5, 0, 5, 10, 15}

StagePrompts ==
    {<<>>, <<"low">>, <<"low", "mid">>, <<"low", "mid", "high">>,
     <<"low", "mid", "high", "top">>}

StageSplits == {<<>>, <<0>>, <<0, 10>>, <<-5, 0, 10>>, <<10, 0>>}

StageInputs ==
    {[DefaultInp EXCEPT !.favor_system = "enable", !.favor_prompts = pr,
                        !.favor_split_points = sp]
     : pr \in StagePrompts, sp \in StageSplits}

InitStage ==
    /\ store \in {Key("g1", "u1") :> [SeedDoc EXCEPT !["favor_value"] = v]
                  : v \in StageValues}
    /\ now = Clock0
    /\ ctx = Idle
    /\ upd = NoUpd
    /\ ops = 0
    /\ coll = {}
    /\ procs = NoProcs

StartStage == StartRun(StageInputs, MaxOps)

NextStage ==
    \/ StartStage \/ Step1 \/ Step2 \/ Step3 \/ Step4 \/ Step5 \/ Step6 \/ Step7
    \/ Return

SpecStage == InitStage /\ [][NextStage]_vars

\* the memory stage over memory arrays with and without an entry whose
\* user_input is empty
MemEntry(user_input, memory_description) ==
    [kind |-> "dict", text |-> <<>>, user_input |-> user_input,
     memory_description |-> memory_description, hit_count |-> 0]

MemoryArrays ==
    {<<>>,
     <<MemEntry(<<"a", " ", "b">>, <<"likes a and b">>), MemEntry(<<"c">>, <<"likes c">>)>>,
     <<MemEntry(<<>>, <<"no input">>), MemEntry(<<"a">>, <<"likes a">>),
       MemEntry(<<"b">>, <<"likes b">>)>>}

MemoryInputs ==
    {[DefaultInp EXCEPT !.memory_system = "enable", !.user_query = q,
                        !.memory_retrieval_number = k]
     : q \in {<<>>, <<"a">>, <<"A", " ", "b">>, <<"c">>}, k \in {<<"0">>, <<"1">>, <<"2">>}}

InitMemory ==
    /\ store \in {Key("g1", "u1") :> [SeedDoc EXCEPT !["long_term_memory"] = m]
                  : m \in MemoryArrays}
    /\ now = Clock0
    /\ ctx = Idle
    /\ upd = NoUpd
    /\ ops = 0
    /\ coll = {}
    /\ procs = NoProcs

StartMemory == StartRun(MemoryInputs, MaxOps)

NextMemory ==
    \/ StartMemory \/ Step1 \/ Step2 \/ Step3 \/ Step4 \/ Step5 \/ Step6 \/ Step7
    \/ Return

SpecMemory == InitMemory /\ [][NextMemory]_vars

\* the context stage over histories of 0 to 3 entries and pool sizes
HistEntry(user_query, output) ==
    [created_at |-> "2024-01-01T00:00:00", user_name |-> "alice",
     user_query |-> user_query, output |-> output]

Histories ==
    {<<>>,
     <<HistEntry("hello", "hi"), HistEntry("bye", "see you")>>,
     <<HistEntry("one", "1"), HistEntry("two", "2"), HistEntry("three", "3")>>}

ContextInputs ==
    {[DefaultInp EXCEPT !.context_system = "enable", !.context_pool_size = n]
     : n \in {<<"-", "1">>, <<"0">>, <<"1">>, <<"2">>, <<"3">>, <<"5">>}}

InitContext ==
    /\ store \in {Key("g1", "u1") :> [SeedDoc EXCEPT !["history_entries"] = h]
                  : h \in Histories}
    /\ now = Clock0
    /\ ctx = Idle
    /\ upd = NoUpd
    /\ ops = 0
    /\ coll = {}
    /\ procs = NoProcs

StartContext == StartRun(ContextInputs, MaxOps)

NextContext ==
    \/ StartContext \/ Step1 \/ Step2 \/ Step3 \/ Step4 \/ Step5 \/ Step6 \/ Step7
    \/ Return

SpecContext == InitContext /\ [][NextContext]_vars

\* the delta of every judgment string up to MaxJudgeLen characters
JudgeChars == {"0", "1", "3", "7", "9", " "}

Judges == UNION {[1..n -> JudgeChars] : n \in 0..MaxJudgeLen}

DeltaUpdates ==
    {[favor_cross_group |-> 0, favor_judge |-> j, group_id |-> "g1", user_id |-> "u1"]
     : j \in Judges}

InitDelta ==
    /\ store = Key("g1", "u1") :> SeedDoc
    /\ now = Clock0
    /\ ctx = Idle
    /\ upd = NoUpd
    /\ ops = 0
    /\ coll = {}
    /\ procs = NoProcs

\* one call for every string
NextDelta == FavorSet(DeltaUpdates, 1)

SpecDelta == InitDelta /\ [][NextDelta]_vars

\* --------------------------------------------------------- concurrent callers
\* For callers that run at the same time the collection is coll, a set of
\* stored documents [key, oid, doc] (oid is the _id MongoDB gives an inserted
\* document), so that two documents of one key can be told apart; each
\* database call of get_document is a step of its own. procs[p] is the
\* position and the local variables of caller p.
Procs == {"p1", "p2"}

RaceUser == "u1"

RaceXG ==
    [favor |-> "enable", persona |-> "enable", blacklist |-> "enable",
     usage_limit |-> "enable"]

\* collection.find(key)
Found(c, key) == {d \in c : d.key = key}

\* an insert_one into a collection without the unique index
insert_without_index(c, key, doc) ==
    [coll |-> c \cup {[key |-> key, oid |-> Cardinality(c) + 1, doc |-> doc]},
     error |-> "None"]

\* collection.insert_one under the unique index on (bot_id, group_id, user_id)
insert_indexed(c, key, doc) ==
    IF Found(c, key) # {}
    THEN [coll |-> c, error |-> "DuplicateKeyError"]
    ELSE [coll |-> c \cup {[key |-> key, oid |-> Cardinality(c) + 1, doc |-> doc]},
          error |-> "None"]

\* collection.update_one(key, {"$set": updates}, upsert=True): the collections
\* it can leave (one matching document is updated, or one is inserted)
Upserts(c, key, updates) ==
    IF Found(c, key) = {}
    THEN {insert_indexed(c, key, updates).coll}
    ELSE {(c \ {d}) \cup {[d EXCEPT !.doc = updates @@ d.doc]} : d \in Found(c, key)}

\* the collection as the function of its keys (one document per key)
StoreOf(c) == [k \in {d.key : d \in c} |-> (CHOOSE d \in c : d.key = k).doc]

ProcIdle == [pc |-> "idle", calls |-> 0, last |-> <<>>]

InitRace ==
    /\ store = <<>>
    /\ now = Clock0
    /\ ctx = Idle
    /\ upd = NoUpd
    /\ ops = 0
    /\ coll \in {{}, {[key |-> Key("g1", RaceUser), oid |-> 1, doc |-> SiblingDoc]}}
    /\ procs = [p \in Procs |-> ProcIdle]

\* caller p moves on with the local variables r
Goes(p, r) == procs' = [procs EXCEPT ![p] = r @@ procs[p]]

\* caller p calls get_document for a key; the call is a retry when p's last
\* call was for this key and ended in an error
ResolveStart(p) ==
    /\ procs[p].pc = "idle"
    /\ procs[p].calls < MaxRaceCalls
    /\ \E g \in CallGroups :
         Goes(p, [pc |-> "find", key |-> Key(g, RaceUser),
                  calls |-> procs[p].calls + 1, inserted |-> FALSE,
                  retry |-> procs[p].last = <<Key(g, RaceUser), "failed">>,
                  last_failed_key |-> IF "last_failed_key" \in DOMAIN procs[p]
                                      THEN procs[p].last_failed_key ELSE <<>>])
    /\ UNCHANGED <<store, now, ctx, upd, ops, coll>>

\* get_document step 1: find_one of the key and the early return
ResolveFind(p) ==
    /\ procs[p].pc = "find"
    /\ IF Found(coll, procs[p].key) = {}
       THEN Goes(p, [pc |-> "find_template"])
       ELSE \E d \in Found(coll, procs[p].key) :
              Goes(p, [pc |-> "done", result |-> d.doc])
    /\ UNCHANGED <<store, now, ctx, upd, ops, coll>>

\* get_document step 2: find_one of the 9999 template
ResolveFindTemplate(p) ==
    /\ procs[p].pc = "find_template"
    /\ LET t == Found(coll, Key(TEMPLATE_GROUP_ID, procs[p].key[2]))
       IN IF t = {} THEN Goes(p, [pc |-> "find_others", template |-> <<>>])
          ELSE \E d \in t : Goes(p, [pc |-> "find_others", template |-> <<d.doc>>])
    /\ UNCHANGED <<store, now, ctx, upd, ops, coll>>

\* get_document step 2: find(...$nin...).limit(1), then the scenario is decided
ResolveFindOthers(p) ==
    /\ procs[p].pc = "find_others"
    /\ LET others == {d \in coll : /\ d.key[2] = procs[p].key[2]
                                    /\ d.key[1] \notin {TEMPLATE_GROUP_ID, procs[p].key[1]}}
       IN IF others = {}
          THEN Goes(p, [pc |-> "insert", source |-> <<>>])
          ELSE \E d \in others :
                 Goes(p, [pc |-> IF procs[p].template = <<>> THEN "insert_template"
                                 ELSE "insert",
                          source |-> <<d.doc>>])
    /\ UNCHANGED <<store, now, ctx, upd, ops, coll>>

\* _create_template_from_source: the template is built and inserted; a
\* DuplicateKeyError leaves get_document (and main) as an exception
ResolveInsertTemplate(p) ==
    /\ procs[p].pc = "insert_template"
    /\ \E t \in {create_template_from_source(
                     <<>>, procs[p].key[2], procs[p].source[1], now).doc} :
       \E r \in {insert_indexed(coll, Key(TEMPLATE_GROUP_ID, procs[p].key[2]), t)} :
         /\ coll' = r.coll
         /\ IF r.error = "None"
            THEN Goes(p, [pc |-> "insert", template |-> <<t>>])
            ELSE Goes(p, [pc |-> "failed", error |-> r.error,
                          failed_key |-> Key(TEMPLATE_GROUP_ID, procs[p].key[2])])
    /\ UNCHANGED <<store, now, ctx, upd, ops>>

\* get_document steps 4 and 5: the new document is built and inserted
ResolveInsert(p) ==
    /\ procs[p].pc = "insert"
    /\ \E new_doc \in {build_document_from_template(RaceXG, procs[p].template, now)} :
       \E r \in {insert_indexed(coll, procs[p].key, new_doc)} :
         /\ coll' = r.coll
         /\ IF r.error = "None"
            THEN Goes(p, [pc |-> "reread", inserted |-> TRUE])
            ELSE Goes(p, [pc |-> "failed", error |-> r.error,
                          failed_key |-> procs[p].key])
    /\ UNCHANGED <<store, now, ctx, upd, ops>>

\* get_document step 5: the document is read back and returned
ResolveReread(p) ==
    /\ procs[p].pc = "reread"
    /\ \E d \in Found(coll, procs[p].key) : Goes(p, [pc |-> "done", result |-> d.doc])
    /\ UNCHANGED <<store, now, ctx, upd, ops, coll>>

\* the caller has the document or the exception
RaceReturn(p) ==
    /\ procs[p].pc \in {"done", "failed"}
    /\ procs' = [procs EXCEPT ![p] =
                    [pc |-> "idle", calls |-> procs[p].calls,
                     last |-> <<procs[p].key, procs[p].pc>>,
                     last_failed_key |-> IF procs[p].pc = "failed"
                                         THEN procs[p].failed_key ELSE <<>>]]
    /\ UNCHANGED <<store, now, ctx, upd, ops, coll>>

\* update_blacklist_single_group by another caller: one update_one with
\* upsert=True, which MongoDB applies as one operation
RaceUpsert ==
    /\ ops < MaxOps
    /\ ops' = ops + 1
    /\ \E g \in CallGroups :
         LET key == Key(g, RaceUser)
             updates == [block_stats |-> [block_status |-> TRUE, block_count |-> 1,
                                          last_operate_time |-> now],
                         updated_at |-> now]
         IN coll' \in Upserts(coll, key, updates)
    /\ UNCHANGED <<store, now, ctx, upd, procs>>

NextRace ==
    \/ \E p \in Procs :
         \/ ResolveStart(p) \/ ResolveFind(p) \/ ResolveFindTemplate(p)
         \/ ResolveFindOthers(p) \/ ResolveInsertTemplate(p) \/ ResolveInsert(p)
         \/ ResolveReread(p) \/ RaceReturn(p)
    \/ RaceUpsert

SpecRace == InitRace /\ [][NextRace]_vars

\* ----------------------------------------------------------- concurrent gates
\* Two callers run the usage gate (check_usage_limit) and the blacklist update
\* (blacklist_set.main) for one existing document on one day; each database
\* call is a step of its own.
GateKey == Key("g1", RaceUser)

GateLimit == 3

GateThreshold == 3

GateLifespan == 60

InitGate ==
    /\ store = <<>>
    /\ now = Clock0
    /\ ctx = Idle
    /\ upd = NoUpd
    /\ ops = 0
    /\ coll = {[key |-> GateKey, oid |-> 1, doc |-> SeedDoc]}
    /\ procs = [p \in Procs |-> ProcIdle]

\* a $inc of the stored counter
usage_written_inc(new_usage_count, stored) == stored + 1

\* the counter update_field writes: the value computed from what was read
usage_written(new_usage_count, stored) == new_usage_count

GateStart(p) ==
    /\ procs[p].pc = "idle"
    /\ procs[p].calls < MaxRaceCalls
    /\ \E pc \in {"read_usage", "read_stats"}, day \in {<<"1">>, <<"2">>} :
         Goes(p, [pc |-> pc, key |-> GateKey, calls |-> procs[p].calls + 1,
                  day |-> day])
    /\ UNCHANGED <<store, now, ctx, upd, ops, coll>>

\* check_usage_limit: get_field of daily_usage_count
UsageReadCount(p) ==
    /\ procs[p].pc = "read_usage"
    /\ \E d \in Found(coll, procs[p].key) :
         Goes(p, [pc |-> "read_updated",
                  current_usage |-> GetOpt(d.doc, "daily_usage_count")])
    /\ UNCHANGED <<store, now, ctx, upd, ops, coll>>

\* check_usage_limit: get_field of updated_at
UsageReadUpdated(p) ==
    /\ procs[p].pc = "read_updated"
    /\ \E d \in Found(coll, procs[p].key) :
         Goes(p, [pc |-> "write_usage", updated_at |-> GetOpt(d.doc, "updated_at")])
    /\ UNCHANGED <<store, now, ctx, upd, ops, coll>>

\* check_usage_limit: the decision and the update_field of the counter
UsageWrite(p) ==
    /\ procs[p].pc = "write_usage"
    /\ LET current_usage_val == safe_int_convert_field(procs[p].current_usage, 0)
           current_date_val ==
               safe_int_convert(format_date(CallerYear, <<"1">>, procs[p].day), 19700101)
           last_request_date_val ==
               IF procs[p].updated_at # <<>> THEN DateVal(procs[p].updated_at[1])
               ELSE 19700101
           branch == usage_branch(current_date_val, last_request_date_val,
                                  current_usage_val, GateLimit)
           new_usage_count == usage_new_count(branch, current_usage_val)
           allow_continue == branch \in {"new_day", "under", "boundary"}
           writes == usage_writes(allow_continue, current_date_val, last_request_date_val)
       IN /\ IF writes
             THEN \E d \in Found(coll, procs[p].key) :
                    coll' \in Upserts(coll, procs[p].key,
                        [daily_usage_count |->
                             usage_written(new_usage_count, d.doc["daily_usage_count"]),
                         updated_at |-> now])
             ELSE coll' = coll
          /\ Goes(p, [pc |-> "done", branch |-> branch,
                      allow_continue |-> allow_continue,
                      new_usage_count |-> new_usage_count])
    /\ UNCHANGED <<store, now, ctx, upd, ops>>

\* blacklist_set: calculate_new_status reads the block statistics
BlackStatsRead(p) ==
    /\ procs[p].pc = "read_stats"
    /\ Goes(p, [pc |-> "write_stats",
                read_count |-> StoreOf(coll)[procs[p].key]["block_stats"].block_count,
                status |-> calculate_new_status(
                    StoreOf(coll), now, procs[p].key[1], procs[p].key[2], "True",
                    GateThreshold, GateLifespan, now.time)])
    /\ UNCHANGED <<store, now, ctx, upd, ops, coll>>

\* blacklist_set: update_blacklist_single_group writes them
BlackStatsWrite(p) ==
    /\ procs[p].pc = "write_stats"
    /\ IF procs[p].status.need_update
       THEN coll' \in Upserts(coll, procs[p].key,
                [block_stats |->
                     [block_status |-> procs[p].status.new_block_status = "True",
                      block_count |-> procs[p].status.new_block_count,
                      last_operate_time |-> now],
                 updated_at |-> now])
       ELSE coll' = coll
    /\ Goes(p, [pc |-> "done"])
    /\ UNCHANGED <<store, now, ctx, upd, ops>>

NextGate ==
    \E p \in Procs :
        \/ GateStart(p) \/ UsageReadCount(p) \/ UsageReadUpdated(p) \/ UsageWrite(p)
        \/ BlackStatsRead(p) \/ BlackStatsWrite(p) \/ RaceReturn(p)

SpecGate == InitGate /\ [][NextGate]_vars

\* ------------------------------------------------- the administrator's parser
\* command texts around every branch of the parser
ParseLeads == {<<>>, <<" ">>}

ParseHeads ==
    {<<"/", "Roza", ".">>, <<"/", "roza", ".">>, <<"Roza", ".">>, <<"/", "/", "Roza", ".">>}

ParseTypes == {<<"favor">>, <<"any">>, <<"blacklist">>}

ParseFields ==
    {<<>>, <<".", "any">>, <<".", "favor_value">>,
     <<".", "block_stats", ".", "block_status">>,
     <<".", "favor_value", ".", "any">>,
     <<".", "block_stats", ".", "block_status", ".", "any">>,
     <<".", "any", ".", "any">>, <<".", "any", ".", "favor_value">>,
     <<".">>, <<".", ".", "any">>}

ParseParams ==
    {<<>>, <<" ">>, <<" ", "all">>, <<" ", "u1", " ", "5", " ">>,
     <<" ", " ", "%", ":", "%", ":", "%", " ", " ", "1", "0", "0">>}

ParseQueries ==
    {l \o h \o a \o <<".">> \o t \o f \o p :
        l \in ParseLeads, h \in ParseHeads, a \in {<<"get">>, <<"set">>},
        t \in ParseTypes, f \in ParseFields, p \in ParseParams}
    \cup {<<>>, <<"/", "Roza", ".">>, <<"/", "Roza", ".", "get">>,
          <<"/", "Roza", ".", "get", " ", "all">>, <<"/", "Roza">>,
          <<"get", ".", "favor">>}

InitParse ==
    /\ store = <<>>
    /\ now = Clock0
    /\ ctx = Idle
    /\ upd = NoUpd
    /\ ops = 0
    /\ coll = {}
    /\ procs = NoProcs

\* parse_command is called on a command text
Parse ==
    /\ ops < 1
    /\ ops' = ops + 1
    /\ \E q \in ParseQueries :
         upd' = [op |-> "parse", args |-> [user_query |-> q],
                 result |-> parse_command(q)]
    /\ UNCHANGED <<store, now, ctx, coll, procs>>

NextParse == Parse

SpecParse == InitParse /\ [][NextParse]_vars

\* ------------------------------------------------ the administrator's commands
\* a document whose values carry their types
CmdDoc(favor_value, history) ==
    [favor_value |-> IntV(favor_value),
     last_favor_change |-> IntV(2),
     daily_usage_count |-> IntV(3),
     total_usage |-> [total_chat_count |-> IntV(4), total_tokens |-> IntV(50),
                      total_prompt_token |-> IntV(30), total_output_token |-> IntV(20)],
     long_term_memory |-> ListV(<<[user_input |-> "a", hit_count |-> 1]>>),
     history_entries |-> ListV(history),
     persona_attributes |-> [k \in PersonaKeys |-> StrV(<<"likes", " ", "tea">>)],
     block_stats |-> [block_status |-> BoolV(FALSE), block_count |-> IntV(2),
                      last_operate_time |-> TimeV(Clock0)],
     created_at |-> TimeV(Clock0),
     updated_at |-> TimeV(Clock0)]

\* the k-th entry of a history
Turn(k) == [user_input |-> k, ai_response |-> k]

\* the first n entries of a history
Turns(n) == [k \in 1..n |-> Turn(k)]

CmdStores ==
    {(Key("g1", "u1") :> CmdDoc(10, Turns(3))) @@ (Key("g2", "u1") :> CmdDoc(30, Turns(1)))
        @@ (Key("g1", "u2") :> CmdDoc(20, Turns(2)))
        @@ (Key(TEMPLATE_GROUP_ID, "u1") :> CmdDoc(10, <<>>)),
     (Key("g1", "u1") :> CmdDoc(0, <<>>)) @@ (Key("g2", "u2") :> CmdDoc(5, Turns(2)))}

\* the time of the commands, after the documents were written
CmdClock == [year |-> 2024, month |-> 1, day |-> 1, time |-> 1]

InitCmd(Stores) ==
    /\ store \in Stores
    /\ now = CmdClock
    /\ ctx = Idle
    /\ upd = NoUpd
    /\ ops = 0
    /\ coll = {}
    /\ procs = NoProcs

\* a command text from its pieces
Text(action, type_key, field, any, params) ==
    <<"/", "Roza", ".">> \o action \o <<".">> \o type_key \o field \o any \o params

\* a caller of one of the two interpreters; x sets the four cross-group flags
Caller(itp, user_query, group_id, is_user_admin, pool_size, x) ==
    [interpreter |-> itp, user_query |-> user_query, group_id |-> group_id,
     is_user_admin |-> is_user_admin, context_pool_size |-> pool_size,
     usage_limit_cross_group |-> x, persona_cross_group |-> x,
     favor_cross_group |-> x, blacklist_cross_group |-> x]

Interpreters == {"execute_command", "CommandExecutor"}

\* the orders in which find can return the documents of a rank
FindOrders(st, a) ==
    IF parse_command(a.user_query).action = Lit("rank") THEN Orders(DOMAIN st) ELSE {<<>>}

\* an administrator's command text is executed by one of the interpreters
Admin(Args) ==
    /\ ctx.pc = "idle"
    /\ ops = 0
    /\ ops' = ops + 1
    /\ \E a \in Args : \E order \in FindOrders(store, a) :
         \E r \in {IF a.interpreter = "execute_command"
                   THEN execute_command_text(store, now, a, order)
                   ELSE CommandExecutor_execute(store, now, a, order)} :
            /\ store' = r.store
            /\ upd' = [op |-> "admin", args |-> a,
                       parts |-> parse_command(a.user_query), result |-> Sans(r)]
    /\ UNCHANGED <<now, ctx, coll, procs>>

\* the types with the fields the commands name
TypeFields ==
    {<<t, f>> : t \in {<<"favor">>},
                f \in {<<>>, <<".", "favor_value">>, <<".", "last_favor_change">>,
                       <<".", "x", ".", "favor_value">>, <<".", "nickname">>}}
    \cup {<<t, f>> : t \in {<<"blacklist">>},
                f \in {<<>>, <<".", "block_status">>, <<".", "block_count">>,
                       <<".", "block_stats", ".", "block_status">>,
                       <<".", "block_stats", ".", "block_count">>,
                       <<".", "block_stats", ".", "last_operate_time">>}}
    \cup {<<t, f>> : t \in {<<"usage">>},
                f \in {<<>>, <<".", "daily_usage_count">>, <<".", "total_tokens">>,
                       <<".", "total_usage", ".", "total_tokens">>}}
    \cup {<<t, f>> : t \in {<<"memory">>},
                f \in {<<>>, <<".", "long_term_memory">>, <<".", "history_entries">>}}
    \cup {<<t, f>> : t \in {<<"context">>}, f \in {<<>>, <<".", "history_entries">>}}
    \cup {<<t, f>> : t \in {<<"persona">>},
                f \in {<<>>, <<".", "persona_attributes", ".", "basic_info">>}}
    \cup {<<<<"mood">>, <<".", "favor_value">>>>, <<<<>>, <<".", "favor_value">>>>}

CmdParams ==
    {<<>>, <<" ", "all">>, <<" ", "u1">>, <<" ", "u1", " ", "7">>,
     <<" ", "u1", " ", "true">>, <<" ", "u1", " ", "False">>, <<" ", "u1", " ", "maybe">>,
     <<" ", "u2", " ", "5", " ", "u1", " ", "soon">>,
     <<" ", "u1", " ", "0", " ", "u2">>,
     <<" ", "%", ":", "%", ":", "u1", " ", "1">>,
     <<" ", "%", ":", "g1", ":", "%", " ", "false", " ", "%", ":", "%", ":", "u2", " ", "x">>,
     <<" ", "3">>}

CmdActions == {<<"get">>, <<"set">>, <<"clear">>, <<"rank">>, <<"drop">>}

CmdCallers ==
    {Caller(itp, Text(act, tf[1], tf[2], any, ps), "g1", "true", 2, x) :
        itp \in Interpreters, act \in CmdActions, tf \in TypeFields,
        any \in {<<>>, <<".", "any">>}, ps \in CmdParams, x \in Switch}
    \cup
    {Caller(itp, Text(<<"clear">>, <<"favor">>, <<>>, <<>>, <<" ", "u1">>), "g1", "false", 2,
            "disable") : itp \in Interpreters}

InitCommand == InitCmd(CmdStores)

AdminCommand == Admin(CmdCallers)

NextCommand == AdminCommand

SpecCommand == InitCommand /\ [][NextCommand]_vars

\* ------------------------------------ a set of block_status, then the gate
\* u1's document of g1, allowed or blocked at the start
GateDocWith(block_status) ==
    [block_stats |-> [block_status |-> block_status, block_count |-> 0,
                      last_operate_time |-> Clock0]] @@ SeedDoc

BlockSetStores ==
    {Key("g1", "u1") :> GateDocWith(b) : b \in BOOLEAN}
    \cup {(Key("g1", "u1") :> GateDocWith(b)) @@ (Key("g2", "u1") :> GateDocWith(~b))
          : b \in BOOLEAN}

BlockSetValues ==
    {<<"true">>, <<"True">>, <<"1">>, <<"false">>, <<"FALSE">>, <<"0">>, <<"maybe">>,
     <<"1", "0">>}

BlockSetCallers ==
    {Caller(itp, Text(<<"set">>, <<"blacklist">>, <<".", "block_status">>, <<>>,
                      <<" ", "u1", " ">> \o v), "g1", "true", 2, x)
       : itp \in Interpreters, v \in BlockSetValues, x \in Switch}
    \cup
    {Caller(itp, Text(<<"set">>, <<"blacklist">>, <<".", "block_status">>, <<".", "any">>,
                      <<" ", "%", ":", "g1", ":", "u1", " ">> \o v), "g1", "true", 2,
            "disable")
       : itp \in Interpreters, v \in BlockSetValues}

\* the request of u1 in g1 that follows the command, within the block lifespan
BlockSetInputs ==
    {[DefaultInp EXCEPT
        !.blacklist_system = "enable", !.warn_lifespan = <<"1">>,
        !.block_lifespan = <<"6", "0">>, !.timestamp = ts]
     : ts \in {0, TicksPerSec}}

InitBlockSet ==
    /\ store \in BlockSetStores
    /\ now = Clock0
    /\ ctx = Idle
    /\ upd = NoUpd
    /\ ops = 0
    /\ coll = {}
    /\ procs = NoProcs

AdminBlockSet == Admin(BlockSetCallers)

\* after the command a caller invokes main(...) for the user
StartBlockSet ==
    /\ ctx.pc = "idle"
    /\ ops = 1
    /\ ops' = ops + 1
    /\ \E inp \in BlockSetInputs :
         ctx' = [pc |-> "step1", inp |-> inp, executed |-> <<>>,
                 before |-> <<store[Key(inp.group_id, inp.user_id)]>>]
    /\ UNCHANGED <<store, now, upd, coll, procs>>

NextBlockSet ==
    \/ AdminBlockSet \/ StartBlockSet
    \/ Step1 \/ Step2 \/ Step3 \/ Step4 \/ Step5 \/ Step6 \/ Step7 \/ Return

SpecBlockSet == InitBlockSet /\ [][NextBlockSet]_vars

\* --------------------------------------------------- the clear of a context
MaxTurns == 4

MaxPool == 5

TrimStores ==
    {(Key("g1", "u1") :> CmdDoc(10, Turns(n))) @@ (Key("g1", "u2") :> CmdDoc(20, Turns(m)))
        @@ (Key("g2", "u1") :> CmdDoc(30, Turns(2)))
     : n \in 0..MaxTurns, m \in {1, 3}}

TrimCallers ==
    {Caller(itp, Text(<<"clear">>, <<"context">>, <<>>, any, ps), "g1", "true", pool, x)
       : itp \in Interpreters, any \in {<<>>, <<".", "any">>},
         ps \in {<<>>, <<" ", "u1">>, <<" ", "u1", " ", "u2">>,
                 <<" ", "%", ":", "%", ":", "u1">>},
         pool \in 0..MaxPool, x \in Switch}

InitTrim == InitCmd(TrimStores)

AdminTrim == Admin(TrimCallers)

NextTrim == AdminTrim

SpecTrim == InitTrim /\ [][NextTrim]_vars

\* ------------------------------------------------------------------ the rank
\* a document without one of its fields
Without(doc, field) == [f \in DOMAIN doc \ {field} |-> doc[f]]

RankStores ==
    {(Key("g1", "u1") :> CmdDoc(10, Turns(1))) @@ (Key("g1", "u2") :> CmdDoc(30, Turns(3)))
        @@ (Key("g1", "u3") :> CmdDoc(20, <<>>)) @@ (Key("g1", "u4") :> CmdDoc(0, Turns(2)))
        @@ (Key("g1", "u5") :> CmdDoc(40, Turns(2))),
     (Key("g1", "u1") :> CmdDoc(7, Turns(1))) @@ (Key("g2", "u1") :> CmdDoc(7, <<>>))
        @@ (Key("g1", "u3") :> Without(CmdDoc(7, <<>>), "favor_value"))
        @@ (Key("g1", "u4") :> [CmdDoc(7, <<>>) EXCEPT !["favor_value"] = StrV(<<"9">>)])
        @@ (Key("g1", "u5") :> [CmdDoc(7, <<>>) EXCEPT !["favor_value"] = StrV(<<"high">>)])}

RankParams ==
    {<<>>, <<" ", "3">>, <<" ", "1">>, <<" ", "0">>, <<" ", "-", "2">>, <<" ", "9", "9">>,
     <<" ", "many">>, <<" ", "%", ":", "g1", ":", "%">>,
     <<" ", "%", ":", "g1", ":", "%", " ", "3">>, <<" ", "%", ":", "%", ":", "u1", " ", "2">>,
     <<" ", "%", ":", "%", ":", "%", " ", "few">>}

RankCallers ==
    {Caller(itp, Text(<<"rank">>, tf[1], tf[2], any, ps), "g1", "true", 2, "disable")
       : itp \in Interpreters,
         tf \in {<<<<"favor">>, <<".", "favor_value">>>>,
                 <<<<"memory">>, <<".", "history_entries">>>>,
                 <<<<"usage">>, <<".", "total_tokens">>>>,
                 <<<<"blacklist">>, <<".", "block_stats", ".", "block_count">>>>},
         any \in {<<>>, <<".", "any">>}, ps \in RankParams}

InitRank == InitCmd(RankStores)

AdminRank == Admin(RankCallers)

NextRank == AdminRank

SpecRank == InitRank /\ [][NextRank]_vars

\* ------------------------------------------------------- the text cleanup
MaxPieces == 3

\* pieces of a raw model text: the markers, their halves, a whole span of
\* each kind, plain text, white space and the moderation marker
CleanPieces ==
    {THINK_OPEN, THINK_CLOSE, TOOL_OPEN, TOOL_CLOSE,
     <<"<">>, <<"<", "/">>, <<"think", ">">>, <<"tool_call", ">">>,
     THINK_OPEN \o <<"b", "\n">> \o THINK_CLOSE,
     TOOL_OPEN \o <<"c">> \o TOOL_CLOSE,
     <<"a">>, <<" ">>, <<"\n">>, WARN, <<"[">>, <<"warn", "]">>}

RECURSIVE CleanTexts(_)
\* the texts made of at most n pieces
CleanTexts(n) ==
    IF n = 0 THEN {<<>>}
    ELSE LET shorter == CleanTexts(n - 1)
         IN shorter \cup {t \o p : t \in shorter, p \in CleanPieces}

RawTexts == CleanTexts(MaxPieces)

\* the configured error_output: a str, a list, an empty list, None
ErrorOutputs ==
    {TextStr(<<"sorry">>), TextList(<<<<"oops">>, <<"try", " ", "again">>>>),
     TextList(<<>>), TextNone}

InitClean ==
    /\ store = <<>>
    /\ now = Clock0
    /\ ctx = Idle
    /\ upd = NoUpd
    /\ ops = 0
    /\ coll = {}
    /\ procs = NoProcs

\* main(llm_output, error_output) on a raw model text
Clean ==
    /\ ops = 0
    /\ ops' = 1
    /\ \E llm_output \in RawTexts, error_output \in ErrorOutputs :
         \E r \in llm_main(llm_output, error_output) :
            upd' = [op |-> "clean",
                    args |-> [llm_output |-> llm_output, error_output |-> error_output],
                    result |-> r]
    /\ UNCHANGED <<store, now, ctx, coll, procs>>

\* main(...) on the text an earlier call returned
CleanAgain ==
    /\ ops = 1
    /\ ops' = 2
    /\ \E r \in llm_main(upd.result.system_output, upd.args.error_output) :
         upd' = [op |-> "clean_again",
                 args |-> [llm_output |-> upd.result.system_output,
                           error_output |-> upd.args.error_output],
                 result |-> r]
    /\ UNCHANGED <<store, now, ctx, coll, procs>>

NextClean == Clean \/ CleanAgain

SpecClean == InitClean /\ [][NextClean]_vars

\* ------------------------------------------- the structured-output validation
Item(key, value) == [key |-> key, value |-> value]

\* the ways a payload carries (or lacks) each field of the schema
FieldChoices(field) ==
    CASE field = "text" ->
            {<<>>, <<Item(<<"text">>, StrV(<<"hi">>))>>, <<Item(<<"text">>, IntV(5))>>,
             <<Item(<<"text">>, NoneV)>>, <<Item(<<":", "text">>, StrV(<<"hi">>))>>}
      [] field = "think_output" ->
            {<<>>, <<Item(<<"think_output">>, StrV(<<"plan">>))>>}
      [] field = "image_info" ->
            {<<>>, <<Item(<<"image_info">>, ListV(<<StrV(<<"cat">>), StrV(<<"dog">>)>>))>>,
             <<Item(<<"image_info">>, ListV(<<StrV(<<"cat">>), IntV(1)>>))>>,
             <<Item(<<"image_info">>, StrV(<<"cat">>))>>}
      [] field = "timer" ->
            {<<>>, <<Item(<<"timer">>, IntV(60))>>, <<Item(<<"timer">>, IntV(0 - 1))>>,
             <<Item(<<"timer">>, StrV(<<"soon">>))>>, <<Item(<<"timer">>, BoolV(TRUE))>>,
             <<Item(<<"timer">>, FloatV(15))>>}
      [] field = "scheduled_events" ->
            {<<>>, <<Item(<<"scheduled_events">>, StrV(<<"wake">>))>>,
             <<Item(<<"scheduled_events">>, IntV(7))>>}
      [] OTHER ->
            {<<>>, <<Item(<<"leap_events">>, StrV(<<"nap">>))>>}

RECURSIVE PayloadsOf(_)
\* the payloads over the first n fields of the schema
PayloadsOf(n) ==
    IF n = 0 THEN {<<>>}
    ELSE {p \o c : p \in PayloadsOf(n - 1), c \in FieldChoices(FIELD_NAMES[n])}

Payloads == PayloadsOf(Len(FIELD_NAMES))

RECURSIVE json_text_of(_)
\* the members of the JSON text of a dict
json_text_of(items) ==
    IF items = <<>> THEN <<>>
    ELSE <<StrV(Head(items).key), Punct(":"), Head(items).value>>
         \o (IF Len(items) = 1 THEN <<>> ELSE <<Punct(",")>>)
         \o json_text_of(Tail(items))

\* the JSON text of a dict
json_text(items) == <<Punct("{")>> \o json_text_of(items) \o <<Punct("}")>>

\* {"output": output}
WithOutput(output) == DictV(<<Item(<<"output">>, output)>>)

\* the argument of main for a payload in either format
InputOf(format, payload) ==
    IF format = "dict" THEN WithOutput(DictV(payload))
    ELSE WithOutput(StrV(json_text(payload)))

\* arguments that carry no payload
OddInputs ==
    {IntV(3), DictV(<<>>), WithOutput(NoneV), WithOutput(IntV(1)),
     WithOutput(ListV(<<StrV(<<"hi">>)>>)),
     WithOutput(StrV(<<IntV(3)>>)),
     WithOutput(StrV(<<Punct("{")>>)),
     WithOutput(StrV(<<Punct("{"), StrV(<<"text">>), Punct(":"), StrV(<<"hi">>),
                       Punct(","), Punct("}")>>)),
     WithOutput(StrV(<<Punct("{"), StrV(<<"text">>), StrV(<<"hi">>), Punct("}")>>)),
     WithOutput(StrV(<<StrV(<<"text">>), Punct(":"), StrV(<<"hi">>)>>))}

Reverse(s) == [i \in 1..Len(s) |-> s[Len(s) + 1 - i]]

\* iteration orders of set(FIELD_DEFINITIONS.keys())
KnownOrders == {FIELD_NAMES, Reverse(FIELD_NAMES)}

\* keys outside the schema
ExtraKeys ==
    {<<"mood">>, <<"con", "text">>, <<"my_", "timer">>, <<"text", "_", "timer">>,
     <<"Text">>}

ExtraValues == {StrV(<<"extra">>), IntV(9)}

InitStructured ==
    /\ store = <<>>
    /\ now = Clock0
    /\ ctx = Idle
    /\ upd = NoUpd
    /\ ops = 0
    /\ coll = {}
    /\ procs = NoProcs

\* main(structured_output) on a payload
Validate ==
    /\ ops = 0
    /\ ops' = 1
    /\ \E payload \in Payloads, format \in {"dict", "json"}, known \in KnownOrders :
         upd' = [op |-> "validate", payload |-> payload, format |-> format,
                 known_fields |-> known,
                 result |-> structured_main(InputOf(format, payload), known)]
    /\ UNCHANGED <<store, now, ctx, coll, procs>>

\* main(structured_output) on an argument without a payload
ValidateOdd ==
    /\ ops = 0
    /\ ops' = 1
    /\ \E input \in OddInputs :
         upd' = [op |-> "validate_odd", input |-> input,
                 result |-> structured_main(input, FIELD_NAMES)]
    /\ UNCHANGED <<store, now, ctx, coll, procs>>

\* main(structured_output) on the same payload with one more key, in front
\* of the other keys or behind them
ValidateExtended ==
    /\ ops = 1
    /\ upd.op = "validate"
    /\ ops' = 2
    /\ \E key \in ExtraKeys, value \in ExtraValues, front \in BOOLEAN :
         \E payload \in {IF front THEN <<Item(key, value)>> \o upd.payload
                         ELSE Append(upd.payload, Item(key, value))} :
            upd' = [op |-> "validate_extended", payload |-> payload,
                    format |-> upd.format, known_fields |-> upd.known_fields,
                    extra |-> key, base |-> upd.result,
                    result |-> structured_main(InputOf(upd.format, payload),
                                               upd.known_fields)]
    /\ UNCHANGED <<store, now, ctx, coll, procs>>

NextStructured == Validate \/ ValidateOdd \/ ValidateExtended

SpecStructured == InitStructured /\ [][NextStructured]_vars

\* ------------------------------------------------------- the history update
MaxHistoryOps == 3

\* an entry written by an earlier history update
PastEntry(i) ==
    create_history_entry(Clock0, "alice", [text |-> "before", images |-> <<>>],
                         [text |-> i])

\* a document after n history updates
HistDoc(n) ==
    [history_stats |-> [total_histories |-> IntV(n)]]
    @@ CmdDoc(0, [i \in 1..n |-> PastEntry(i)])

\* the document get_document inserts at the first touch of a key, with
\* nothing inherited
FreshDoc(clk) ==
    [favor_value |-> IntV(0), last_favor_change |-> IntV(0),
     daily_usage_count |-> IntV(0),
     total_usage |-> [total_chat_count |-> IntV(0), total_tokens |-> IntV(0),
                      total_prompt_token |-> IntV(0), total_output_token |-> IntV(0)],
     long_term_memory |-> ListV(<<>>),
     history_entries |-> ListV(<<>>),
     history_stats |-> [total_histories |-> IntV(0)],
     persona_attributes |-> [k \in PersonaKeys |-> StrV(<<>>)],
     block_stats |-> [block_status |-> BoolV(TRUE), block_count |-> IntV(0),
                      last_operate_time |-> TimeV(clk)],
     created_at |-> TimeV(clk),
     updated_at |-> TimeV(clk)]

HistUsers == {"u1", "u2"}

HistStores == {<<>>, (Key("g1", "u1") :> HistDoc(2)) @@ (Key("g1", "u2") :> HistDoc(0))}

HistArgs ==
    {[group_id |-> "g1", user_id |-> u, user_name |-> "alice", user_query |-> "hello",
      output |-> out, error_output |-> "ERR",
      image_info |-> IF u = "u1" THEN <<"a cat">> ELSE <<>>,
      token_usage |-> [total_tokens |-> 30, prompt_tokens |-> 20, completion_tokens |-> 10]]
     : u \in HistUsers, out \in {[text |-> "hi"], [error |-> "ERR"]}}

\* the clear commands on the history and on another type
HistCallers ==
    {Caller(itp, Text(<<"clear">>, <<"context">>, <<>>, <<>>, ps), "g1", "true", pool,
            "disable")
       : itp \in Interpreters, ps \in {<<" ", "u1">>, <<" ", "all">>}, pool \in {0, 1, 2}}
    \cup
    {Caller("execute_command", Text(<<"clear">>, tf[1], tf[2], <<>>, <<" ", "u1">>), "g1",
            "true", 1, "disable")
       : tf \in {<<<<"context">>, <<".", "history_entries">>>>,
                 <<<<"context">>, <<".", "history_stats", ".", "total_histories">>>>,
                 <<<<"favor">>, <<>>>>}}

InitHistory ==
    /\ store \in HistStores
    /\ now = CmdClock
    /\ ctx = Idle
    /\ upd = NoUpd
    /\ ops = 0
    /\ coll = {}
    /\ procs = NoProcs

\* the first touch of a key by get_document
Touch ==
    /\ ops < MaxHistoryOps
    /\ ops' = ops + 1
    /\ \E u \in HistUsers :
         /\ ~Exists(store, "g1", u)
         /\ store' = insert_one(store, "g1", u, FreshDoc(now))
         /\ upd' = [op |-> "touch", args |-> [group_id |-> "g1", user_id |-> u]]
    /\ UNCHANGED <<now, ctx, coll, procs>>

\* a caller invokes history_set.main(...) with arguments a
HistorySet ==
    /\ ops < MaxHistoryOps
    /\ ops' = ops + 1
    /\ \E a \in HistArgs : \E r \in {history_set_main(store, now, a)} :
         /\ store' = r.store
         /\ upd' = [op |-> "history_set", args |-> a, result |-> Sans(r)]
    /\ UNCHANGED <<now, ctx, coll, procs>>

\* an administrator's clear command; coll remembers the documents a clear
\* has changed
AdminHistory ==
    /\ ops < MaxHistoryOps
    /\ ops' = ops + 1
    /\ \E a \in HistCallers :
         \E r \in {IF a.interpreter = "execute_command"
                   THEN execute_command_text(store, now, a, <<>>)
                   ELSE CommandExecutor_execute(store, now, a, <<>>)} :
            /\ store' = r.store
            /\ coll' = coll \cup {k \in DOMAIN store : r.store[k] # store[k]}
            /\ upd' = [op |-> "admin", args |-> a,
                       parts |-> parse_command(a.user_query), result |-> Sans(r)]
    /\ UNCHANGED <<now, ctx, procs>>

NextHistory == Touch \/ HistorySet \/ AdminHistory

SpecHistory == InitHistory /\ [][NextHistory]_vars

\* ------------------------------------------- both gates in one run, next day
\* documents last written on the first day: a used counter, and block_stats
\* that the blacklist gate leaves alone, resets or lifts
ResetStores ==
    {Key("g1", "u1") :>
        [SeedDoc EXCEPT !["daily_usage_count"] = c, !["block_stats"] = bs]
     : c \in {0, 2, 5},
       bs \in {[block_status |-> TRUE, block_count |-> 0, last_operate_time |-> Clock0],
               [block_status |-> TRUE, block_count |-> 1, last_operate_time |-> Clock0],
               [block_status |-> FALSE, block_count |-> 3, last_operate_time |-> Clock0]}}

ResetInputs ==
    {[DefaultInp EXCEPT
        !.blacklist_system = bs, !.blacklist_restrict_admin_users = "enable",
        !.warn_lifespan = <<"1">>, !.block_lifespan = <<"1">>, !.timestamp = ts,
        !.usage_limit_system = "enable", !.usage_restrict_admin_users = "enable",
        !.usage_limit = l, !.year = CallerYear, !.month = <<"1">>, !.day = d,
        !.overusage_output = PoolStr("enough")]
     : bs \in Switch, ts \in {0, TicksPerSec}, l \in {<<"0">>, <<"3">>},
       d \in {<<"1">>, <<"2">>}}

InitReset ==
    /\ store \in ResetStores
    /\ now = Clock0
    /\ ctx = Idle
    /\ upd = NoUpd
    /\ ops = 0
    /\ coll = {}
    /\ procs = NoProcs

StartReset == StartRun(ResetInputs, MaxOps)

NextReset ==
    \/ StartReset \/ Step1 \/ Step2 \/ Step3 \/ Step4 \/ Step5 \/ Step6 \/ Step7
    \/ Return \/ NewDay

SpecReset == InitReset /\ [][NextReset]_vars

\* the usage gate called again and again for one caller-supplied date while the
\* server's clock is a day behind it
MaxSkewChecks == 4

\* the caller's (UTC+8) day, one after the day of Clock0
SkewDay == <<"2">>

SkewLimits == {<<"0">>, <<"1">>, <<"2">>}

SkewStores ==
    {Key("g1", "u1") :> [SeedDoc EXCEPT !["daily_usage_count"] = c] : c \in {0, 2, 5}}

SkewInputs ==
    {[DefaultInp EXCEPT
        !.usage_limit_system = "enable", !.usage_restrict_admin_users = "enable",
        !.usage_limit = l, !.year = CallerYear, !.month = <<"1">>, !.day = SkewDay,
        !.overusage_output = PoolStr("enough")]
     : l \in SkewLimits}

InitSkew ==
    /\ store \in SkewStores
    /\ now = Clock0
    /\ ctx = Idle
    /\ upd = NoUpd
    /\ ops = 0
    /\ coll = {}
    /\ procs = NoProcs

\* one call of step_3_usage_limit_check with the limit of the calls before it;
\* coll keeps, for every call, the limit, the server's day and the decision
UsageCheck ==
    /\ ops < MaxSkewChecks
    /\ ops' = ops + 1
    /\ \E inp \in SkewInputs, pick \in {"g1"},
          choice \in random_message(PoolStr("enough")) :
         /\ \A x \in coll : x.usage_limit = inp.usage_limit
         /\ \E r \in {step_3_usage_limit_check(store, now, inp, pick, choice)} :
              /\ store' = r.store
              /\ upd' = [op |-> "usage_check", args |-> inp, result |-> Sans(r)]
              /\ coll' = coll \cup {[n |-> ops + 1, usage_limit |-> inp.usage_limit,
                                     server_day |-> now.day,
                                     admitted |-> r.continue_to_step_4]}
    /\ UNCHANGED <<now, ctx, procs>>

NextSkew == UsageCheck \/ Tick \/ NewDay

SpecSkew == InitSkew /\ [][NextSkew]_vars

\* the ways out of a block: u1 is allowed in g1 and blocked in g2, where the
\* gate and the update step act, and blocked in g3, where an administrator
\* clears the blacklist
MaxLiftOps == 2

LiftStores ==
    {(Key("g1", "u1") :> [GateDocWith(TRUE) EXCEPT !["block_stats"].block_count = c])
       @@ (Key("g2", "u1") :> [GateDocWith(FALSE) EXCEPT !["block_stats"].block_count = 2])
       @@ (Key("g3", "u1") :> [GateDocWith(FALSE) EXCEPT !["block_stats"].block_count = 2])
     : c \in {0, 1}}

LiftInputs ==
    {[DefaultInp EXCEPT
        !.group_id = g, !.blacklist_cross_group = x,
        !.blacklist_system = "enable", !.blacklist_restrict_admin_users = "enable",
        !.warn_lifespan = <<"1">>, !.block_lifespan = <<"6", "0">>, !.timestamp = ts]
     : g \in CallGroups, x \in Switch, ts \in {0, 30 * TicksPerSec, 60 * TicksPerSec}}

LiftUpdates ==
    {[blacklist_system |-> "enable", warn_lifespan |-> <<"1">>, warn_count |-> <<"2">>,
      timestamp |-> ts, group_id |-> g, user_id |-> "u1",
      blacklist_cross_group |-> x, block_status |-> b]
     : g \in CallGroups, x \in Switch, b \in {"True", "False"}, ts \in {0, TicksPerSec}}

LiftCallers ==
    {Caller(itp, Text(<<"set">>, <<"blacklist">>, <<".", "block_status">>, <<>>,
                      <<" ", "u1", " ">> \o v), g, adm, 2, x)
       : itp \in Interpreters, v \in {<<"true">>, <<"false">>}, g \in CallGroups,
         adm \in {"true", "false"}, x \in Switch}
    \cup
    {Caller(itp, Text(<<"clear">>, <<"blacklist">>, <<>>, <<>>, <<" ", "u1">>), "g3", adm,
            2, "disable")
       : itp \in Interpreters, adm \in {"true", "false"}}

InitLift ==
    /\ store \in LiftStores
    /\ now = Clock0
    /\ ctx = Idle
    /\ upd = NoUpd
    /\ ops = 0
    /\ coll = {}
    /\ procs = NoProcs

AdminLift == Admin(LiftCallers)

StartLift == StartRun(LiftInputs, MaxLiftOps)

\* a caller invokes blacklist_set.main(...); the step keeps the block_stats the
\* user's documents had before the call
UpdateLift ==
    /\ ctx.pc = "idle"
    /\ ops < MaxLiftOps
    /\ ops' = ops + 1
    /\ \E a \in LiftUpdates :
         \E r \in {blacklist_set_main(store, now, a)} :
            /\ store' = r.store
            /\ upd' = [op |-> "blacklist_set", args |-> a, result |-> Sans(r),
                       before |-> [k \in {k \in DOMAIN store : k[2] = a.user_id} |->
                                      store[k]["block_stats"]]]
    /\ UNCHANGED <<now, ctx, coll, procs>>

NextLift ==
    \/ AdminLift \/ StartLift \/ UpdateLift
    \/ Step1 \/ Step2 \/ Step3 \/ Step4 \/ Step5 \/ Step6 \/ Step7 \/ Return

SpecLift == InitLift /\ [][NextLift]_vars

\* commands of callers with and without the administrator's right, one after
\* the other
MaxRefuseOps == 3

RefuseStore ==
    (Key("g1", "u1") :> CmdDoc(10, Turns(3))) @@ (Key("g2", "u1") :> CmdDoc(30, Turns(1)))
       @@ (Key("g1", "u2") :> CmdDoc(20, Turns(2)))

\* well-formed commands of every action, a malformed one and a plain message
RefuseTexts ==
    {Text(<<"clear">>, <<"favor">>, <<>>, <<>>, <<" ", "u1">>),
     Text(<<"clear">>, <<"context">>, <<>>, <<".", "any">>, <<" ", "%", ":", "%", ":", "u1">>),
     Text(<<"set">>, <<"favor">>, <<".", "favor_value">>, <<>>, <<" ", "u1", " ", "7">>),
     Text(<<"set">>, <<"blacklist">>, <<".", "block_status">>, <<>>,
          <<" ", "u2", " ", "true">>),
     Text(<<"get">>, <<"favor">>, <<>>, <<>>, <<" ", "u1">>),
     Text(<<"rank">>, <<"favor">>, <<".", "favor_value">>, <<>>, <<" ", "3">>),
     Text(<<"drop">>, <<"favor">>, <<>>, <<>>, <<" ", "u1">>),
     <<"hello">>}

AdminFlags == {"true", "false", "True", ""}

RefuseCallers ==
    {Caller("execute_command", t, "g1", adm, 2, x)
       : t \in RefuseTexts, adm \in AdminFlags, x \in Switch}

InitRefuse == InitCmd({RefuseStore})

\* a caller invokes execute_command(...); coll keeps the is_user_admin of the
\* calls made
CommandCall ==
    /\ ctx.pc = "idle"
    /\ ops < MaxRefuseOps
    /\ ops' = ops + 1
    /\ \E a \in RefuseCallers : \E order \in FindOrders(store, a) :
         \E r \in {execute_command_text(store, now, a, order)} :
            /\ store' = r.store
            /\ upd' = [op |-> "admin", args |-> a,
                       parts |-> parse_command(a.user_query), result |-> Sans(r)]
            /\ coll' = coll \cup {a.is_user_admin}
    /\ UNCHANGED <<now, ctx, procs>>

NextRefuse == CommandCall

SpecRefuse == InitRefuse /\ [][NextRefuse]_vars

\* ------------------------------------------------------------------- claims
Gates == {1, 2, 3}

StopReasons == {"block", "input_exceeds_max_length", "overusage", "finish"}

\* the result of gate stage k in the context c of a run, <<>> when it has not run
GateResult(c, k) ==
    LET f == CASE k = 1 -> "step1_result" [] k = 2 -> "step2_result"
               [] k = 3 -> "step3_result"
    IN IF f \in DOMAIN c THEN <<c[f]>> ELSE <<>>

\* the stages 1..n in their order
StagesUpTo(n) == [i \in 1..n |-> i]

\* the output fields of the stages after stage k hold their defaults in result r
LaterDefaults(r, k) ==
    /\ k < 2 => r.step2_input_length = 0 /\ r.step2_max_length = 0
    /\ k < 3 => /\ r.step3_current_usage = 0 /\ r.step3_usage_limit = 0
                /\ r.step3_usage_date = BlankText
    /\ r.favor_value = 0 /\ r.favor_prompt = BlankText
    /\ r.persona = BlankText
    /\ r.context = BlankText /\ r.step6_context_count = 0
    /\ r.step7_hit_memories = NoHitsField

\* daily_usage_count and long_term_memory of every document of st are the same in st2
UsageAndMemoryKept(st, st2) ==
    \A k \in DOMAIN st :
        /\ k \in DOMAIN st2
        /\ GetOpt(st2[k], "daily_usage_count") = GetOpt(st[k], "daily_usage_count")
        /\ GetOpt(st2[k], "long_term_memory") = GetOpt(st[k], "long_term_memory")

\* what C1 says of the context c of a run
EarlyExit(c) ==
    c.pc # "idle" =>
      /\ c.executed = StagesUpTo(Len(c.executed))
      /\ \A k \in Gates :
           GateResult(c, k) # <<>> /\ GateResult(c, k)[1].stop_reason # "None" =>
             /\ c.pc = "done"
             /\ c.executed = StagesUpTo(k)
             /\ c.result.stop_reason = GateResult(c, k)[1].stop_reason
             /\ c.result.step_stopped_at = k
             /\ c.result.main_prompt = c.inp.main_prompt
             /\ LaterDefaults(c.result, k)

\* C1: the stages run in the order 1..7; a gate that sets a stop reason ends the
\* run at once: nothing runs after it, main_prompt is returned as passed in and the
\* later stages' output fields hold their defaults; steps 1 and 2, and hence a
\* run rejected by the blacklist or the input-length gate, leave daily_usage_count
\* and every memory entry (its hit_count) of every document unchanged, and once a
\* run is over it changes nothing more.
C1_EarlyExit ==
    [][/\ EarlyExit(ctx')
       /\ ctx.pc \in {"step1", "step2"} => UsageAndMemoryKept(store, store')
       /\ ctx.pc = "done" => store' = store]_vars

\* a run rejected by each gate, with the document holding memories and a counter
C1_Witness ==
    /\ ctx.pc = "done"
    /\ ctx.result.stop_reason = "input_exceeds_max_length"
    /\ ctx.inp.memory_system = "enable"
    /\ Exists(store, ctx.inp.group_id, ctx.inp.user_id)
    /\ Len(Get(store[Key(ctx.inp.group_id, ctx.inp.user_id)], "long_term_memory", <<>>)) > 0

\* what C2 says of a finished run: its stop reason and the stage that set it
OneStopReason ==
    ctx.pc = "done" =>
      /\ ctx.result.stop_reason \in StopReasons
      /\ ctx.result.stop_reason = "block" <=> ctx.result.step_stopped_at = 1
      /\ ctx.result.stop_reason = "input_exceeds_max_length"
           <=> ctx.result.step_stopped_at = 2
      /\ ctx.result.stop_reason = "overusage" <=> ctx.result.step_stopped_at = 3
      /\ ctx.result.stop_reason = "finish" <=> ctx.result.step_stopped_at = 7
      /\ ctx.result.step_stopped_at = Len(ctx.executed)
      /\ ctx.result.stop_reason = "finish" <=>
           /\ ctx.executed = StagesUpTo(7)
           /\ ctx.step1_result.continue_to_step_2
           /\ ctx.step2_result.continue_to_step_3
           /\ ctx.step3_result.continue_to_step_4
      /\ ctx.result.stop_reason # "finish" =>
           /\ Len(ctx.executed) \in Gates
           /\ ~ GateResult(ctx, Len(ctx.executed))[1][
                    CASE Len(ctx.executed) = 1 -> "continue_to_step_2"
                      [] Len(ctx.executed) = 2 -> "continue_to_step_3"
                      [] Len(ctx.executed) = 3 -> "continue_to_step_4"]

\* the number of the stage a run is at; 8 once it is over
StageOf(c) ==
    CASE c.pc = "step1" -> 1 [] c.pc = "step2" -> 2 [] c.pc = "step3" -> 3
      [] c.pc = "step4" -> 4 [] c.pc = "step5" -> 5 [] c.pc = "step6" -> 6
      [] c.pc = "step7" -> 7 [] c.pc = "done" -> 8

\* C2: every run terminates (a run under way leads to a finished one; it is at
\* the stage after the ones it has executed, and its every step takes it to a
\* later stage or ends it), and a finished run has exactly one stop reason,
\* one of block, input_exceeds_max_length, overusage, finish; a rejection comes from the gate
\* of that name (stage 1, 2, 3), and the reason is finish exactly when
\* step_stopped_at is 7, exactly when all three gates admitted the request.
C2_StopReason ==
    /\ [][/\ OneStopReason'
          /\ ctx.pc \notin {"idle", "done"} =>
               /\ StageOf(ctx) = Len(ctx.executed) + 1
               /\ StageOf(ctx') > StageOf(ctx)
               /\ ctx'.executed = Append(ctx.executed, StageOf(ctx))]_vars
    /\ (RunUnderWay ~> ctx.pc = "done")

\* a run that all three gates admitted and every augmentation stage worked on
C2_Witness ==
    /\ ctx.pc = "done"
    /\ ctx.result.stop_reason = "finish"
    /\ ctx.inp.favor_system = "enable"
    /\ ctx.result.step7_hit_memories.hits # <<>>
    /\ ctx.result.step3_current_usage > 0

\* C3 as claimed: the input-length gate rejects exactly when max_length > 0 and
\* length(user_query) >= max_length.
C3_RejectsIffPositiveAndTooLong ==
    "step2_result" \in DOMAIN ctx =>
        (ctx.step2_result.stop_reason = "input_exceeds_max_length"
           <=> /\ ctx.step2_result.max_length > 0
               /\ Len(ctx.inp.user_query) >= ctx.step2_result.max_length)

\* a one-character query turned away by the limit -1
C3_Witness ==
    /\ ctx.pc = "done"
    /\ ctx.result.stop_reason = "input_exceeds_max_length"
    /\ ctx.result.step2_max_length < 0
    /\ ctx.result.step2_input_length = 1

\* -------------------------------------------------- claims on the gates
\* the key of the document a run works on
RunKey(c) == Key(c.inp.group_id, c.inp.user_id)

\* the collection and the document of a run once get_document has looked the
\* document up: the stored one, or the one created on first touch
Resolved(st, clk, c) ==
    get_document(st, XG(c.inp), clk, c.inp.group_id, c.inp.user_id, "g1")

\* st with the fields of updates, and updated_at, set in the document at key k
Written(st, clk, k, updates) ==
    [st EXCEPT ![k] = updates @@ ("updated_at" :> clk) @@ st[k]]

\* the step of a run in which the blacklist gate looks at its document
AtBlacklistGate == ctx.pc = "step1" /\ ctx.inp.blacklist_system = "enable"

\* the seconds since last_operate_time, in ticks, at the gate of run c
Elapsed(st, clk, c) ==
    c.inp.timestamp - Resolved(st, clk, c).doc["block_stats"].last_operate_time.time

BlockLifespanOf(c) == safe_int_convert(c.inp.block_lifespan, 0)

WarnLifespanOf(c) == safe_int_convert(c.inp.warn_lifespan, 0)

\* C4: for a document in blocked status the blacklist gate, with elapsed =
\* timestamp - last_operate_time: if elapsed >= block_lifespan it writes
\* block_status = allowed (the rest of block_stats as it was) and admits the
\* request; otherwise it rejects with stop reason block and a message carrying
\* block_lifespan - elapsed truncated to an integer, and writes nothing. With
\* block_lifespan 60: elapsed 30 is rejected reporting 30 seconds, elapsed 61 is
\* admitted with the status flipped to allowed.
C4_BlockedGate ==
    [][AtBlacklistGate
         /\ Resolved(store, now, ctx).doc["block_stats"].block_status = FALSE =>
       LET R == Resolved(store, now, ctx)
           bs == R.doc["block_stats"]
           elapsed == Elapsed(store, now, ctx)
           life == BlockLifespanOf(ctx) * TicksPerSec
       IN /\ elapsed >= life =>
               /\ ctx'.pc = "step2"
               /\ store' = Written(R.store, now, RunKey(ctx),
                                   "block_stats" :> [bs EXCEPT !.block_status = TRUE])
          /\ elapsed < life =>
               /\ ctx'.pc = "done"
               /\ ctx'.result.stop_reason = "block"
               /\ ctx'.result.stop_message.seconds * TicksPerSec <= life - elapsed
               /\ life - elapsed < (ctx'.result.stop_message.seconds + 1) * TicksPerSec
               /\ store' = R.store
          /\ BlockLifespanOf(ctx) = 60 /\ elapsed = 30 * TicksPerSec =>
               ctx'.pc = "done" /\ ctx'.result.stop_message.seconds = 30
          /\ BlockLifespanOf(ctx) = 60 /\ elapsed = 61 * TicksPerSec =>
               /\ ctx'.pc = "step2"
               /\ store'[RunKey(ctx)]["block_stats"].block_status = TRUE]_vars

\* a rejection 30 seconds and a tick into a block of 60: a fraction is cut off
C4_Witness ==
    /\ ctx.pc = "done"
    /\ ctx.result.stop_reason = "block"
    /\ ctx.before # <<>>
    /\ ctx.inp.timestamp - ctx.before[1]["block_stats"].last_operate_time.time
         = 30 * TicksPerSec + 1
    /\ ctx.result.stop_message.seconds = 29

\* C5: for a document in allowed status the blacklist gate always admits the
\* request; with block_count = 0 it writes nothing; with block_count > 0 it
\* resets block_count to 0 when timestamp - last_operate_time >= warn_lifespan
\* and otherwise writes nothing; block_status and last_operate_time stay.
C5_AllowedGate ==
    [][AtBlacklistGate
         /\ Resolved(store, now, ctx).doc["block_stats"].block_status = TRUE =>
       LET R == Resolved(store, now, ctx)
           bs == R.doc["block_stats"]
           resets == /\ bs.block_count > 0
                     /\ Elapsed(store, now, ctx) >= WarnLifespanOf(ctx) * TicksPerSec
       IN /\ ctx'.pc = "step2"
          /\ resets => store' = Written(R.store, now, RunKey(ctx),
                                        "block_stats" :> [bs EXCEPT !.block_count = 0])
          /\ ~resets => store' = R.store
          /\ store'[RunKey(ctx)]["block_stats"].block_status = TRUE
          /\ store'[RunKey(ctx)]["block_stats"].last_operate_time
               = bs.last_operate_time]_vars

\* the gate has reset the count of a warned user exactly warn_lifespan later
C5_Witness ==
    /\ ctx.pc = "step2"
    /\ ctx.inp.blacklist_system = "enable"
    /\ ctx.before # <<>>
    /\ ctx.before[1]["block_stats"].block_status = TRUE
    /\ ctx.before[1]["block_stats"].block_count > 0
    /\ ctx.inp.timestamp - ctx.before[1]["block_stats"].last_operate_time.time
         = WarnLifespanOf(ctx) * TicksPerSec
    /\ store[RunKey(ctx)]["block_stats"].block_count = 0
    /\ ctx.step1_result.modified_count = 1

\* ------------------------------------- claims on the blacklist update step
\* the step in which blacklist_set.main ran (with the system enabled)
Updated == upd'.op = "blacklist_set" /\ ops' # ops

\* the block_stats of the document of user a.user_id in group a.group_id, as
\* the update step reads them
StatsRead(st, clk, a) ==
    IF Exists(st, a.group_id, a.user_id)
       /\ "block_stats" \in DOMAIN st[Key(a.group_id, a.user_id)]
    THEN st[Key(a.group_id, a.user_id)]["block_stats"]
    ELSE get_default_block_stats(clk)

\* the block_stats C6 has the update step write, <<>> when it is to change nothing
StatsClaimed(st, clk, a) ==
    LET bs == StatsRead(st, clk, a)
        elapsed == a.timestamp - bs.last_operate_time.time
        warn == safe_int_convert(a.warn_lifespan, 300) * TicksPerSec
        threshold == safe_int_convert(a.warn_count, 3)
    IN IF bs.block_status # TRUE THEN <<>>
       ELSE IF elapsed >= warn
       THEN <<[block_status |-> TRUE, block_count |-> 1, last_operate_time |-> clk]>>
       ELSE <<[block_status |-> bs.block_count + 1 < threshold,
               block_count |-> bs.block_count + 1, last_operate_time |-> clk]>>

\* C6 as claimed, for the calls whose block_status argument is True: if the
\* document's status is not allowed the update step changes nothing; otherwise
\* elapsed >= warn_lifespan sets block_count to 1 and keeps the status allowed,
\* and else block_count grows by 1 and the status becomes blocked once the count
\* reaches the threshold; a changed count comes with last_operate_time = now.
C6_NoOpUnlessAllowed ==
    [][Updated /\ upd'.args.block_status = "True" =>
       LET a == upd'.args
           claimed == StatsClaimed(store, now, a)
       IN IF claimed = <<>> THEN store' = store
          ELSE /\ Exists(store', a.group_id, a.user_id) \/ a.blacklist_cross_group = "enable"
               /\ Exists(store', a.group_id, a.user_id) =>
                    store'[Key(a.group_id, a.user_id)]["block_stats"] = claimed[1]]_vars

\* an update called with block_status True has raised the count of a blocked
\* document past the threshold
C6_Witness ==
    /\ upd.op = "blacklist_set"
    /\ upd.args.block_status = "True"
    /\ upd.result.block_count > safe_int_convert(upd.args.warn_count, 3)
    /\ store[Key(upd.args.group_id, upd.args.user_id)]["block_stats"].block_count
         = upd.result.block_count

\* the documents of user u in collection st
DocsOf(st, u) == {k \in DOMAIN st : k[2] = u}

\* C7: with blacklist cross-group enabled the update step writes the same new
\* block_status and block_count to every document of the (bot_id, user_id) pair
\* (and creates none); with it disabled it writes only the document of
\* (bot_id, group_id, user_id); the documents it does not write stay as they are.
C7_UpdateScope ==
    [][Updated /\ store' # store =>
       LET a == upd'.args
           new == [block_status |-> upd'.result.new_block_status = "True",
                   block_count |-> upd'.result.block_count,
                   last_operate_time |-> now]
           written == IF a.blacklist_cross_group = "enable" THEN DocsOf(store, a.user_id)
                      ELSE {Key(a.group_id, a.user_id)}
       IN /\ DOMAIN store' = DOMAIN store \cup written
          /\ \A k \in written : store'[k]["block_stats"] = new
          /\ \A k \in DOMAIN store \ written : store'[k] = store[k]
          /\ \A k \in written \cap DOMAIN store :
               \A f \in DOMAIN store[k] \ {"block_stats", "updated_at"} :
                   f \in DOMAIN store'[k] /\ store'[k][f] = store[k][f]]_vars

\* a cross-group update has blocked the user in both groups and in the template
C7_Witness ==
    /\ upd.op = "blacklist_set"
    /\ upd.args.blacklist_cross_group = "enable"
    /\ upd.result.new_block_status = "False"
    /\ Cardinality(DocsOf(store, "u1")) = 3
    /\ \A k \in DocsOf(store, "u1") :
         /\ store[k]["block_stats"].block_status = FALSE
         /\ store[k]["block_stats"].block_count = upd.result.block_count
    /\ DocsOf(store, "u2") # {}

\* ------------------------------------------------- claims on the usage gate
\* the step of a run in which the usage gate looks at its document
AtUsageGate == ctx.pc = "step3" /\ ctx.inp.usage_limit_system = "enable"

\* the caller's date as the integer YYYYMMDD
CallerDate(c) ==
    safe_int_convert(format_date(c.inp.year, c.inp.month, c.inp.day), 19700101)

\* the date of updated_at of the document of run c
LastDate(st, clk, c) == DateVal(Resolved(st, clk, c).doc["updated_at"])

UsageLimitOf(c) == safe_int_convert(c.inp.usage_limit, 0)

\* a message the over-usage pool of run c can give; the fixed text when the
\* pool is empty
OverusageMessages(c) ==
    IF Truthy(c.inp.overusage_output)
    THEN {Msg(m, 0) : m \in random_message(c.inp.overusage_output)}
    ELSE {Msg("DEFAULT_OVERUSAGE", 0)}

\* what C8 says of the same-day requests that find counter c against limit L
SameDayRule ==
    AtUsageGate /\ CallerDate(ctx) = LastDate(store, now, ctx) =>
      LET R == Resolved(store, now, ctx)
          c == R.doc["daily_usage_count"]
      IN /\ c <= UsageLimitOf(ctx) =>
              /\ ctx'.pc = "step4"
              /\ store' = Written(R.store, now, RunKey(ctx), "daily_usage_count" :> c + 1)
              /\ ctx'.step3_result.usage_info.current_usage = c + 1
         /\ c > UsageLimitOf(ctx) =>
              /\ ctx'.pc = "done"
              /\ ctx'.result.stop_reason = "overusage"
              /\ Truthy(ctx.inp.overusage_output) =>
                   ctx'.result.stop_message \in OverusageMessages(ctx)
              /\ store' = R.store

\* the same-day request that finds counter c with limit 3 is admitted
SameDayAdmits(c) ==
    AtUsageGate /\ CallerDate(ctx) = LastDate(store, now, ctx) /\ UsageLimitOf(ctx) = 3
      /\ Resolved(store, now, ctx).doc["daily_usage_count"] = c
      => ctx'.pc = "step4"

\* the same-day request that finds counter c with limit 3 is rejected
SameDayRejects(c) ==
    AtUsageGate /\ CallerDate(ctx) = LastDate(store, now, ctx) /\ UsageLimitOf(ctx) = 3
      /\ Resolved(store, now, ctx).doc["daily_usage_count"] = c
      => ctx'.pc = "done" /\ ctx'.result.stop_reason = "overusage"

C9_NewDayReset ==
    [][AtUsageGate /\ CallerDate(ctx) > LastDate(store, now, ctx) =>
         /\ ctx'.pc = "step4"
         /\ store' = Written(Resolved(store, now, ctx).store, now, RunKey(ctx),
                             "daily_usage_count" :> 1)
         /\ ctx'.step3_result.usage_info.current_usage = 1]_vars

\* a new day's request has reset a counter that had passed the limit
C9_Witness ==
    /\ ctx.pc = "step4"
    /\ ctx.inp.usage_limit_system = "enable"
    /\ ctx.before # <<>>
    /\ ctx.before[1]["daily_usage_count"] > UsageLimitOf(ctx)
    /\ CallerDate(ctx) > DateVal(ctx.before[1]["updated_at"])
    /\ store[RunKey(ctx)]["daily_usage_count"] = 1

\* C10: the usage gate writes daily_usage_count only when it admits the request:
\* a rejection, for over-usage or for a caller's date earlier than the date of
\* updated_at, leaves the collection as get_document left it, daily_usage_count
\* and updated_at of the document unchanged; a date anomaly is always rejected.
C10_WritesOnlyOnAdmit ==
    [][AtUsageGate =>
       LET R == Resolved(store, now, ctx)
       IN /\ store' # R.store => ctx'.pc = "step4"
          /\ ctx'.pc = "done" =>
               /\ store' = R.store
               /\ store'[RunKey(ctx)]["daily_usage_count"] = R.doc["daily_usage_count"]
               /\ store'[RunKey(ctx)]["updated_at"] = R.doc["updated_at"]
          /\ CallerDate(ctx) < LastDate(store, now, ctx) =>
               ctx'.pc = "done" /\ ctx'.result.stop_reason = "overusage"]_vars

\* a request dated before updated_at turned away, its used counter as it was
C10_Witness ==
    /\ ctx.pc = "done"
    /\ ctx.result.stop_reason = "overusage"
    /\ ctx.before # <<>>
    /\ CallerDate(ctx) < DateVal(ctx.before[1]["updated_at"])
    /\ ctx.before[1]["daily_usage_count"] > 0
    /\ store[RunKey(ctx)] = ctx.before[1]

\* the switch is off, or it is on with admins exempt and the caller an admin
Exempt(system, restrict_admin_users, is_user_admin) ==
    \/ system = "disable"
    \/ system = "enable" /\ restrict_admin_users = "disable" /\ is_user_admin = "true"

BlacklistExempt(c) ==
    Exempt(c.inp.blacklist_system, c.inp.blacklist_restrict_admin_users,
           c.inp.is_user_admin)

UsageExempt(c) ==
    Exempt(c.inp.usage_limit_system, c.inp.usage_restrict_admin_users,
           c.inp.is_user_admin)

\* C11: a blacklist gate or a usage gate that is switched off, or switched on
\* with admins exempt for an admin caller, admits the request and leaves the
\* collection as it was: no document created, no field of any document changed.
C11_SkippedGates ==
    [][/\ ctx.pc = "step1" /\ BlacklistExempt(ctx) =>
            /\ ctx'.pc = "step2"
            /\ ctx'.step1_result.stop_reason = "None"
            /\ store' = store
       /\ ctx.pc = "step3" /\ UsageExempt(ctx) =>
            /\ ctx'.pc = "step4"
            /\ ctx'.step3_result.stop_reason = "None"
            /\ store' = store]_vars

\* an admin passed both gates, each switched on with admins exempt, on a key
\* that holds no document
C11_Witness ==
    /\ ctx.pc = "step4"
    /\ ctx.inp.is_user_admin = "true"
    /\ ctx.inp.blacklist_system = "enable"
    /\ ctx.inp.blacklist_restrict_admin_users = "disable"
    /\ ctx.inp.usage_limit_system = "enable"
    /\ ctx.inp.usage_restrict_admin_users = "disable"
    /\ ~Exists(store, ctx.inp.group_id, ctx.inp.user_id)

\* the settings of the four cross-group flags (set_cross_group_config)
CrossGroupConfigs ==
    [favor : Switch, persona : Switch, blacklist : Switch, usage_limit : Switch]

\* C12: in every state, get_document on a key that holds a document returns
\* that document and the collection as it was (nothing inserted, no template
\* made, no field changed), whatever the cross-group flags.
C12_ResolveExisting ==
    \A k \in DOMAIN store : \A xg \in CrossGroupConfigs : \A pick \in Groups :
        get_document(store, xg, now, k[1], k[2], pick)
            = [store |-> store, doc |-> store[k]]

\* the blacklist gate has resolved a document that existed, while the user has
\* a document in another group and no template: the collection is as it was
C12_Witness ==
    /\ ctx.pc = "step2"
    /\ ctx.inp.blacklist_system = "enable"
    /\ ctx.before # <<>>
    /\ ctx.step1_result.modified_count = 0
    /\ other_group_docs(store, ctx.inp.group_id, ctx.inp.user_id) # {}
    /\ ~Exists(store, TEMPLATE_GROUP_ID, ctx.inp.user_id)
    /\ store[RunKey(ctx)] = ctx.before[1]

\* the fields a template takes from its source document
InheritedFields ==
    {"favor_value", "last_favor_change", "persona_attributes", "block_stats",
     "daily_usage_count", "long_term_memory"}

\* doc is a template made at time clk from the document src: the inherited
\* fields that src carries are src's, the others start afresh
TemplateFrom(doc, src, clk) ==
    /\ \A f \in InheritedFields : f \in DOMAIN src => doc[f] = src[f]
    /\ doc.total_usage = [total_chat_count |-> 0, total_tokens |-> 0,
                          total_prompt_token |-> 0, total_output_token |-> 0]
    /\ doc.history_entries = <<>>
    /\ doc.history_stats = [total_histories |-> 0]
    /\ doc.created_at = clk /\ doc.updated_at = clk

\* a stage of a run is about to be executed
AtStage == ctx.pc \in {"step1", "step2", "step3", "step4", "step5", "step6", "step7"}

\* the step is the first touch of the run's key
FirstTouch == AtStage /\ RunKey(ctx) \notin DOMAIN store /\ RunKey(ctx) \in DOMAIN store'

TemplateKey(c) == Key(TEMPLATE_GROUP_ID, c.inp.user_id)

\* C13: the first touch of a key inserts a template at group 9999 exactly when
\* the user has none and has a document in another (non-template) group; the
\* new template has that document's favor_value, last_favor_change,
\* persona_attributes, block_stats, daily_usage_count and long_term_memory,
\* and total_usage zero, no history entries and total_histories 0; a template
\* that exists is left as it is, and so is one by a stage that finds its document.
C13_TemplateOnFirstTouch ==
    [][/\ FirstTouch =>
            LET siblings == other_group_docs(store, ctx.inp.group_id, ctx.inp.user_id)
                t == TemplateKey(ctx)
            IN /\ (t \notin DOMAIN store /\ t \in DOMAIN store')
                     <=> (t \notin DOMAIN store /\ siblings # {})
               /\ t \notin DOMAIN store /\ t \in DOMAIN store' =>
                     \E g \in siblings :
                         TemplateFrom(store'[t], store[Key(g, ctx.inp.user_id)], now)
               /\ t \in DOMAIN store => store'[t] = store[t]
               /\ t \notin DOMAIN store /\ siblings = {} => t \notin DOMAIN store'
       /\ AtStage /\ ~FirstTouch =>
            /\ TemplateKey(ctx) \in DOMAIN store' <=> TemplateKey(ctx) \in DOMAIN store
            /\ TemplateKey(ctx) \in DOMAIN store
                  => store'[TemplateKey(ctx)] = store[TemplateKey(ctx)]]_vars

\* a first touch in g2 has made the template from the g1 document, which had
\* a favor value, memories, a history and usage totals
C13_Witness ==
    /\ ctx.pc = "step2"
    /\ ctx.before = <<>>
    /\ ctx.inp.group_id = "g2"
    /\ Exists(store, TEMPLATE_GROUP_ID, "u1")
    /\ Exists(store, "g1", "u1")
    /\ "total_usage" \in DOMAIN store[Key("g1", "u1")]
    /\ store[Key("g1", "u1")].total_usage.total_tokens > 0
    /\ store[Key(TEMPLATE_GROUP_ID, "u1")].favor_value = 5
    /\ store[Key(TEMPLATE_GROUP_ID, "u1")].total_usage.total_tokens = 0

\* C14: the document inserted by a first touch has block_stats, favor_value
\* and last_favor_change, persona_attributes and daily_usage_count of the
\* template when there is a template and the blacklist, favor, persona or
\* usage-limit cross-group flag is enabled, and their hard defaults otherwise;
\* its total_usage, long_term_memory, history_entries and history_stats are the
\* defaults. With a sibling of favor_value 7 and no template, the new
\* favor_value is 7 with the favor flag on and 0 with it off, and a template
\* is there afterwards in both cases.
C14_NewDocument ==
    [][FirstTouch =>
         LET new == store'[RunKey(ctx)]
             t == TemplateKey(ctx)
             siblings == other_group_docs(store, ctx.inp.group_id, ctx.inp.user_id)
             Takes(field, default, flag) ==
                 new[field] = IF t \in DOMAIN store' /\ flag = "enable"
                              THEN store'[t][field] ELSE default
         IN /\ Takes("block_stats",
                     [block_status |-> TRUE, block_count |-> 0, last_operate_time |-> now],
                     ctx.inp.blacklist_cross_group)
            /\ Takes("favor_value", 0, ctx.inp.favor_cross_group)
            /\ Takes("last_favor_change", 0, ctx.inp.favor_cross_group)
            /\ Takes("persona_attributes", [k \in PersonaKeys |-> ""],
                     ctx.inp.persona_cross_group)
            /\ Takes("daily_usage_count", 0, ctx.inp.usage_limit_cross_group)
            /\ new.total_usage = [total_chat_count |-> 0, total_tokens |-> 0,
                                  total_prompt_token |-> 0, total_output_token |-> 0]
            /\ new.long_term_memory = <<>>
            /\ new.history_entries = <<>>
            /\ new.history_stats = [total_histories |-> 0]
            /\ ( /\ t \notin DOMAIN store
                 /\ siblings # {}
                 /\ \A g \in siblings :
                       GetOpt(store[Key(g, ctx.inp.user_id)], "favor_value") = <<7>> )
               => /\ t \in DOMAIN store'
                  /\ new.favor_value = IF ctx.inp.favor_cross_group = "enable" THEN 7 ELSE 0
       ]_vars

\* a first touch with the favor flag on and the persona flag off, of a user
\* whose sibling had favor_value 7 and a persona: the new document has 7 and
\* the default persona, and the template is there
C14_Witness ==
    /\ ctx.pc = "step5"
    /\ ctx.before = <<>>
    /\ ctx.inp.favor_cross_group = "enable"
    /\ ctx.inp.persona_cross_group = "disable"
    /\ Exists(store, TEMPLATE_GROUP_ID, "u1")
    /\ store[Key(TEMPLATE_GROUP_ID, "u1")].persona_attributes["basic_info"] = "student"
    /\ store[RunKey(ctx)].favor_value = 7
    /\ store[RunKey(ctx)].persona_attributes["basic_info"] = ""
    /\ ctx.step4_result.favor_value = 7

\* at most one stored document per key
UniqueKeys == \A d1 \in coll : \A d2 \in coll : d1.key = d2.key => d1 = d2

\* caller p takes the step
Acts(p) == procs'[p] # procs[p]

\* an insert by p of a key that holds a document fails with the error and
\* stores nothing
RacingInsertFails ==
    \A p \in Procs :
        /\ Acts(p) /\ procs[p].pc = "insert" /\ Found(coll, procs[p].key) # {}
             => /\ procs'[p].pc = "failed"
                /\ procs'[p].error = "DuplicateKeyError"
                /\ coll' = coll
        /\ ( /\ Acts(p) /\ procs[p].pc = "insert_template"
             /\ Found(coll, Key(TEMPLATE_GROUP_ID, procs[p].key[2])) # {} )
             => /\ procs'[p].pc = "failed"
                /\ procs'[p].error = "DuplicateKeyError"
                /\ coll' = coll

\* the first step of p's retry returns the stored document of the key and
\* inserts nothing
RetryReturnsStored(p) ==
    /\ procs'[p].pc = "done"
    /\ \E d \in coll : d.key = procs[p].key /\ procs'[p].result = d.doc
    /\ coll' = coll

\* C15 as stated: no two documents of a key, a racing insert fails with the
\* error, and every retry of a failed resolve returns the stored document
\* without inserting.
C15_EveryRetryFinds ==
    [][/\ UniqueKeys'
       /\ RacingInsertFails
       /\ \A p \in Procs :
            Acts(p) /\ procs[p].pc = "find" /\ procs[p].retry
              => RetryReturnsStored(p)]_vars

\* C15: in every state the collection holds at most one document per key
\* (the 9999 key included); an insert that races with another insert of its
\* key fails with DuplicateKeyError, which reaches the caller, and stores
\* nothing; the retry of a resolve whose insert of its own key failed returns
\* the stored document without inserting; the retry of a resolve whose
\* template insert failed finds the winner's template and makes no other.
C15_UniqueUnderRaces ==
    [][/\ UniqueKeys'
       /\ RacingInsertFails
       /\ \A p \in Procs :
            /\ ( /\ Acts(p) /\ procs[p].pc = "find" /\ procs[p].retry
                 /\ procs[p].last_failed_key = procs[p].key )
                 => RetryReturnsStored(p)
            /\ ( /\ Acts(p) /\ procs[p].pc = "find_template" /\ procs[p].retry
                 /\ procs[p].last_failed_key # procs[p].key )
                 => procs'[p].template # <<>>]_vars

\* both callers were resolving the same key; one inserted it and the other's
\* insert failed
C15_Witness ==
    /\ procs["p1"].pc = "failed" /\ procs["p1"].failed_key = procs["p1"].key
    /\ procs["p2"].pc \in {"reread", "done"} /\ procs["p2"].inserted
    /\ procs["p2"].key = procs["p1"].key

\* the stored document of the gates' key
GateDoc(c) == StoreOf(c)[GateKey]

\* C16: the gates read and then write. A usage gate that is admitted on the
\* day of the last update leaves the counter at the value it read plus one,
\* whatever the counter has become since the read, and a blacklist update
\* leaves the block count it computed from what it read; so two runs that
\* read the same counter are both admitted and advance it by one. The key
\* stays unique.
C16_ReadThenWrite ==
    [][/\ UniqueKeys'
       /\ \A p \in Procs :
            /\ ( /\ Acts(p) /\ procs[p].pc = "write_usage"
                 /\ procs'[p].branch \in {"under", "boundary"} )
                 => /\ procs'[p].allow_continue
                    /\ GateDoc(coll')["daily_usage_count"]
                         = procs[p].current_usage[1] + 1
            /\ ( /\ Acts(p) /\ procs[p].pc = "write_stats"
                 /\ procs[p].status.need_update )
                 => GateDoc(coll')["block_stats"].block_count
                      = procs[p].status.new_block_count]_vars

\* a lost update: both runs read the counter at 0 on the same day, both were
\* admitted, and the counter stands at 1
C16_Witness ==
    /\ \A p \in Procs :
         /\ procs[p].pc = "done" /\ "branch" \in DOMAIN procs[p]
         /\ procs[p].calls = 1
         /\ procs[p].branch = "under" /\ procs[p].allow_continue
         /\ procs[p].current_usage = <<0>>
    /\ GateDoc(coll)["daily_usage_count"] = 1

\* the template document of the user, if there is one
TemplateOf(st) ==
    IF Exists(st, TEMPLATE_GROUP_ID, "u1") THEN <<st[Key(TEMPLATE_GROUP_ID, "u1")]>>
    ELSE <<>>

\* the step is a call of the update or command op
UpdateStep(op) == ops' = ops + 1 /\ upd'.op = op

\* the step is a first touch that makes the template
MakesTemplate == FirstTouch /\ TemplateOf(store) = <<>>

UserDocs(st, user_id) == {k \in DOMAIN st : k[2] = user_id}

Ascending(sp) == \A i \in 1..(Len(sp) - 1) : sp[i] < sp[i + 1]

\* the prompt list cut or padded with its last entry to n entries
Resized(pr, n) == [i \in 1..n |-> IF i <= Len(pr) THEN pr[i] ELSE pr[Len(pr)]]

\* C19: with strictly ascending split points s_1 < ... < s_n and the prompt
\* list cut or padded (with its last entry) to n+1 entries, the stage prompt
\* of favor value v is the entry at the first split point above v, the last
\* entry when none is above; with [0,10] and [low, mid, high], -5 gives low,
\* 0 and 5 give mid, 15 gives high.
C19_StageSelection ==
    "step4_result" \in DOMAIN ctx =>
        LET sp == ctx.inp.favor_split_points
            pr == ctx.inp.favor_prompts
            v == ctx.step4_result.favor_value
            n == Len(sp)
            above == {i \in 1..n : sp[i] > v}
            stage == ctx.step4_result.favor_prompt[1]
        IN /\ v = store[RunKey(ctx)]["favor_value"]
           /\ ( Ascending(sp) /\ pr # <<>> ) =>
                 /\ above # {} =>
                      \E i \in above : /\ \A j \in above : i <= j
                                        /\ stage = Resized(pr, n + 1)[i]
                 /\ above = {} => stage = Resized(pr, n + 1)[n + 1]
           /\ ( sp = <<0, 10>> /\ pr = <<"low", "mid", "high">> ) =>
                 /\ v = -5 => stage = "low"
                 /\ v \in {0, 5} => stage = "mid"
                 /\ v = 15 => stage = "high"

\* a favor value on the split point 0 has been given the stage "mid"
C19_Witness ==
    /\ "step4_result" \in DOMAIN ctx
    /\ ctx.inp.favor_split_points = <<0, 10>>
    /\ ctx.inp.favor_prompts = <<"low", "mid", "high">>
    /\ ctx.step4_result.favor_value = 0
    /\ ctx.step4_result.favor_prompt = <<"mid">>

\* the maximal runs of digits of s, as pairs of their first and last position
DigitRuns(s) ==
    {r \in (1..Len(s)) \X (1..Len(s)) :
        /\ r[1] <= r[2]
        /\ \A i \in r[1]..r[2] : s[i] \in Digits
        /\ r[1] = 1 \/ s[r[1] - 1] \notin Digits
        /\ r[2] = Len(s) \/ s[r[2] + 1] \notin Digits}

RunValue(s, r) == DigitsToInt(SubSeq(s, r[1], r[2]))

RECURSIVE SumOfRuns(_, _)
SumOfRuns(s, R) ==
    IF R = {} THEN 0
    ELSE LET r == CHOOSE x \in R : TRUE IN RunValue(s, r) + SumOfRuns(s, R \ {r})

\* C20: the delta of a judgment string is the floor of the average of its
\* digit-runs of value 0 to 9, minus 4, and 0 when it has none; a run of a
\* value above 9 counts for nothing; the delta lies in -4..5, and "3 7"
\* gives +1.
C20_FavorDelta ==
    upd.op = "favor_set" =>
        LET s == upd.args.favor_judge
            delta == upd.result.favor_change
            kept == {r \in DigitRuns(s) : RunValue(s, r) <= 9}
            n == Cardinality(kept)
            total == SumOfRuns(s, kept)
        IN /\ n = 0 => delta = 0
           /\ n > 0 => (delta + 4) * n <= total /\ total < (delta + 5) * n
           /\ delta \in -4..5
           /\ s = <<"3", " ", "7">> => delta = 1

\* the delta of "3 7" has been computed as +1
C20_Witness ==
    /\ upd.op = "favor_set"
    /\ upd.args.favor_judge = <<"3", " ", "7">>
    /\ upd.result.favor_change = 1

\* the memory array of the run's document
MemoryOf(st) == st[RunKey(ctx)]["long_term_memory"]

\* the similarity of entry i of the array mem to the query q
EntrySim(mem, q, i) ==
    cosine_similarity(q, mem[i].user_input,
                      build_vocabulary(Append(memory_inputs_of(mem), q)))

\* the entries that can be returned: a user_input of similarity > 0
Eligible(mem, q) ==
    {i \in 1..Len(mem) : mem[i].user_input # <<>> /\ SimPositive(EntrySim(mem, q, i))}

\* R is a choice of the k entries that rank highest
TopRanked(mem, q, k, R) ==
    /\ R \subseteq Eligible(mem, q)
    /\ Cardinality(R) = IF k < Cardinality(Eligible(mem, q)) THEN k
                        ELSE Cardinality(Eligible(mem, q))
    /\ \A i \in R : \A j \in Eligible(mem, q) \ R :
          ~SimGreater(EntrySim(mem, q, j), EntrySim(mem, q, i))

\* C21: the memory stage returns the at most memory_retrieval_number entries
\* whose user_input ranks highest by similarity > 0 to the query, adds 1 to
\* the hit_count of exactly those, leaves the other entries and the length
\* and order of the array as they were, also when entries have an empty
\* user_input, and writes nothing and returns the prompt unchanged when
\* nothing was hit.
C21_HitsReturnedEntries ==
    [][ctx.pc = "step7" /\ ctx.inp.memory_system = "enable" =>
         LET mem == MemoryOf(store)
             q == ctx.inp.user_query
             k == safe_int_convert(ctx.inp.memory_retrieval_number, 5)
             hits == ctx'.step7_result.hit_memories
         IN \E R \in SUBSET (1..Len(mem)) :
              /\ TopRanked(mem, q, k, R)
              /\ MemoryOf(store') =
                   [i \in 1..Len(mem) |->
                      IF i \in R THEN [mem[i] EXCEPT !.hit_count = @ + 1] ELSE mem[i]]
              /\ Len(hits) = Cardinality(R)
              /\ {hits[i].memory_description : i \in 1..Len(hits)}
                   = {mem[i].memory_description : i \in R}
              /\ R = {} => /\ store' = store
                           /\ ctx'.step7_result.enhanced_main_prompt = ctx.current_prompt]_vars

\* the entry whose user_input is empty has been hit and returned
C21_Witness ==
    /\ ctx.pc = "done" /\ "step7_result" \in DOMAIN ctx
    /\ \E i \in 1..Len(MemoryOf(store)) :
         /\ MemoryOf(store)[i].user_input = <<>>
         /\ MemoryOf(store)[i].hit_count > 0
    /\ \E i \in 1..Len(ctx.step7_result.hit_memories) :
         ctx.step7_result.hit_memories[i].memory_description = <<"no input">>

\* C22: the context stage uses the last N entries of history_entries (all of
\* them when there are fewer), in their stored order, N being the pool size;
\* for N <= 0 or an empty history it uses none and returns the prompt as it
\* was; it writes nothing.
C22_LastEntries ==
    [][ctx.pc = "step6" /\ ctx.inp.context_system = "enable" =>
         LET h == store[RunKey(ctx)]["history_entries"]
             N == safe_int_convert(ctx.inp.context_pool_size, 0)
             m == IF N <= 0 THEN 0 ELSE IF N < Len(h) THEN N ELSE Len(h)
             used == [i \in 1..m |-> h[Len(h) - m + i]]
             r == ctx'.step6_result
         IN /\ r.context_count = <<m>>
            /\ m > 0 => /\ r.context_text = context_parts(used)
                        /\ r.enhanced_main_prompt # ctx.current_prompt
            /\ m = 0 => r.enhanced_main_prompt = ctx.current_prompt
            /\ store' = store]_vars

\* the last two of three entries have been used, the newest last
C22_Witness ==
    /\ "step6_result" \in DOMAIN ctx
    /\ ctx.inp.context_pool_size = <<"2">>
    /\ ctx.step6_result.context_count = <<2>>
    /\ ctx.step6_result.context_text
         = context_parts(<<HistEntry("two", "2"), HistEntry("three", "3")>>)

\* ------------------------------------------------ claims on the commands
\* the positions around the pieces of s between the separators sep
Cuts(s, sep) == {0, Len(s) + 1} \cup {i \in 1..Len(s) : s[i] = sep}

\* the k-th piece of s between two neighbouring cuts
Piece(s, sep, k) ==
    LET C == Cuts(s, sep)
        lo == CHOOSE c \in C : Cardinality({d \in C : d < c}) = k - 1
        hi == CHOOSE c \in C : Cardinality({d \in C : d < c}) = k
    IN SubSeq(s, lo + 1, hi - 1)

NPieces(s, sep) == Cardinality(Cuts(s, sep)) - 1

\* the text starts with /Roza.
StartsRoza(s) == Len(s) >= 3 /\ s[1] = "/" /\ s[2] = "Roza" /\ s[3] = "."

\* the command token of a trimmed text: what stands before its first blank
CommandToken(t) == Piece(t, " ", 1)

\* the words after the command token, in their order
ParamsOf(t) ==
    LET n == NPieces(t, " ")
        idx == {k \in 2..n : Piece(t, " ", k) # <<>>}
    IN [j \in 1..Cardinality(idx) |->
          Piece(t, " ", CHOOSE k \in idx : Cardinality({m \in idx : m < k}) = j - 1)]

\* the segments of the command token from the a-th to the b-th, joined by dots
Dotted(tok, a, b) ==
    LET lo == CHOOSE c \in Cuts(tok, ".") : Cardinality({d \in Cuts(tok, ".") : d < c}) = a - 1
        hi == CHOOSE c \in Cuts(tok, ".") : Cardinality({d \in Cuts(tok, ".") : d < c}) = b
    IN SubSeq(tok, lo + 1, hi - 1)

\* what the claim says of the parse r of a text whose trimmed form t starts
\* with /Roza. and has at least three segments
ParsedAsStated(t, r) ==
    LET tok == Tail(CommandToken(t))
        n == NPieces(tok, ".")
        wild == Piece(tok, ".", n) = <<"any">>
        last == IF wild THEN n - 1 ELSE n
    IN n >= 3 =>
         /\ r.action = Piece(tok, ".", 2)
         /\ r.type_key = Piece(tok, ".", 3)
         /\ r.has_any = wild
         /\ r.field = IF last >= 4 THEN <<Dotted(tok, 4, last)>> ELSE <<>>
         /\ r.params = IF ParamsOf(t) # <<>> THEN ParamsOf(t)
                       ELSE IF wild THEN <<<<"%", ":", "%", ":", "%">>>>
                       ELSE <<<<"all">>>>

\* the example of the claim
ParseExample ==
    upd.args.user_query = <<"/", "Roza", ".", "get", ".", "favor", " ", "all">>
    => upd.result = [action |-> <<"get">>, type_key |-> <<"favor">>, field |-> <<>>,
                     has_any |-> FALSE, params |-> <<<<"all">>>>]

\* C30 as stated: parse_command splits the text into action, type, field,
\* wildcard mode and parameters, and every text that does not start with
\* /Roza. gives an empty action.
C30_NotStartingGivesEmpty ==
    upd.op = "parse" =>
      /\ StartsRoza(upd.args.user_query)
           => ParsedAsStated(upd.args.user_query, upd.result)
      /\ ParseExample
      /\ ~StartsRoza(upd.args.user_query) => upd.result.action = <<>>

\* C30: parse_command trims the text; action and type are the second and
\* third dot segments of the command token, a trailing segment any sets
\* wildcard mode and is not part of the field, the field is the dot-joined
\* segments between the type and the optional any (None if there are none),
\* params are the blank-separated words after the command token, by default
\* ['%:%:%'] in wildcard mode and ['all'] otherwise; a text whose trimmed form
\* does not start with /Roza. gives an empty action.
C30_ParseCommand ==
    upd.op = "parse" =>
      LET t == Strip(upd.args.user_query) IN
      /\ StartsRoza(t) => ParsedAsStated(t, upd.result)
      /\ ParseExample
      /\ ~StartsRoza(t) => upd.result.action = <<>>

\* a wildcard command with a dotted field and parameters has been parsed
C30_Witness ==
    /\ upd.op = "parse"
    /\ upd.result.has_any
    /\ upd.result.field = <<<<"block_stats", ".", "block_status">>>>
    /\ upd.result.action = <<"set">>
    /\ Len(upd.result.params) = 2

\* the step is a command of the administrator
AdminStep == UpdateStep("admin")

\* the result texts that report an error
ErrorTexts ==
    {"NO_ADMIN", "FORMAT_ERROR", "SET_NEEDS_FIELD", "RANK_NEEDS_FIELD",
     "RANK_TYPE_UNSUPPORTED", "RANK_FIELD_UNSUPPORTED", "ANY_NEEDS_PAIRS",
     "PARAMS_NOT_PAIRED", "BLOCK_STATUS_NOT_BOOLEAN", "INVALID_INT_LITERAL",
     "LIMIT_NOT_INTEGER"}

\* the command passes the administrator test of its interpreter
Admitted(a) == a.interpreter = "CommandExecutor" \/ a.is_user_admin = "true"

\* the parse is a command of one of the four actions on a type
WellFormed(p) ==
    /\ p.action \in {<<"get">>, <<"set">>, <<"clear">>, <<"rank">>}
    /\ p.type_key # <<>>

\* the last dot segment of a field
LeafName(f) == Piece(f, ".", NPieces(f, "."))

\* a field that resolves against the rank whitelist of the type
Resolves(type_key, f) ==
    \E i \in 1..Len(RANK_FIELDS(type_key)) :
       f = RANK_FIELDS(type_key)[i] \/ LeafName(f) = LeafName(RANK_FIELDS(type_key)[i])

\* the error the claim expects of the parse p, <<>> when p is none of its cases
ExpectedError(p) ==
    IF p.action = <<"set">> /\ ~Given(p.field) THEN {"SET_NEEDS_FIELD"}
    ELSE IF p.action = <<"rank">> /\ ~Given(p.field) THEN {"RANK_NEEDS_FIELD"}
    ELSE IF p.action = <<"rank">> /\ ~Resolves(p.type_key, p.field[1])
    THEN {"RANK_TYPE_UNSUPPORTED", "RANK_FIELD_UNSUPPORTED"}
    ELSE IF p.action = <<"set">> /\ p.has_any /\ (Len(p.params) < 2 \/ Len(p.params) % 2 = 1)
    THEN {"ANY_NEEDS_PAIRS"}
    ELSE IF p.action = <<"set">> /\ ~p.has_any /\ Len(p.params) % 2 = 1
    THEN {"PARAMS_NOT_PAIRED"}
    ELSE {}

\* C23: a set without a field, a rank without a field or with a field that
\* resolves neither exactly nor by its leaf name against the rank whitelist of
\* the type, a wildcard set with an odd number of parameters or fewer than 2,
\* and a non-wildcard set with an odd number of parameters each return the
\* error text of their case and change no document.
C23_ValidationFailsClosed ==
    [][AdminStep /\ WellFormed(upd'.parts) /\ ExpectedError(upd'.parts) # {}
         => /\ store' = store
            /\ upd'.result.result \in ErrorTexts
            /\ Admitted(upd'.args) => upd'.result.result \in ExpectedError(upd'.parts)]_vars

\* a wildcard set with three parameters has been rejected
C23_Witness ==
    /\ upd.op = "admin"
    /\ upd.parts.action = <<"set">> /\ upd.parts.has_any /\ Given(upd.parts.field)
    /\ Len(upd.parts.params) = 3
    /\ upd.result.result = "ANY_NEEDS_PAIRS"

\* a rank of a field outside the whitelist has been rejected
C23_WitnessRank ==
    /\ upd.op = "admin"
    /\ upd.parts.action = <<"rank">>
    /\ upd.parts.type_key = <<"favor">> /\ upd.parts.field = <<<<"nickname">>>>
    /\ upd.result.result = "RANK_FIELD_UNSUPPORTED"

\* the result texts of a value that cannot be coerced
CoercionErrors == {"BLOCK_STATUS_NOT_BOOLEAN", "INVALID_INT_LITERAL"}

\* C24 as stated: a set command whose result is a coercion error (a value that
\* is no boolean for blacklist block_status, no integer for a favor numeric
\* field or block_count) modifies no document, also when an earlier pair of
\* the same command was valid.
C24_CoercionErrorWritesNothing ==
    [][AdminStep /\ upd'.result.result \in CoercionErrors => store' = store]_vars

\* the same of a set command that carries one pair
C24_OnePair ==
    [][AdminStep /\ upd'.result.result \in CoercionErrors /\ Len(upd'.parts.params) = 2
         => store' = store]_vars

\* a set of favor_value for u2 and u1 has failed on u1's value after it wrote
\* u2's
C24_Witness ==
    /\ upd.op = "admin"
    /\ upd.parts.action = <<"set">> /\ upd.parts.field = <<<<"favor_value">>>>
    /\ upd.parts.params = <<<<"u2">>, <<"5">>, <<"u1">>, <<"soon">>>>
    /\ upd.result.result = "INVALID_INT_LITERAL"
    /\ Exists(store, "g1", "u2")
    /\ store[Key("g1", "u2")]["favor_value"] = IntV(5)
    /\ store[Key("g1", "u2")]["updated_at"] = TimeV(CmdClock)

\* the values a set of block_status reads as true and as false
TrueTexts == {<<"true">>, <<"True">>, <<"TRUE">>, <<"1">>}

FalseTexts == {<<"false">>, <<"False">>, <<"FALSE">>, <<"0">>}

\* the last command was a set of blacklist block_status of u1 to value
BlockStatusSet(u) ==
    /\ u.op = "admin"
    /\ u.parts.action = <<"set">> /\ u.parts.type_key = <<"blacklist">>
    /\ u.parts.field = <<<<"block_status">>>>
    /\ Len(u.parts.params) = 2

\* C25 as stated: a set of blacklist block_status stores a boolean at
\* block_stats.block_status of the user's document (true for true or 1, false
\* for false or 0; any other value is an error and nothing is written), and
\* the blacklist gate of the request that follows allows the user after a set
\* to true and blocks the user after a set to false.
C25_SetReachesGate ==
    /\ [][AdminStep /\ BlockStatusSet(upd') =>
            LET v == upd'.parts.params[2]
                mine == store'[Key("g1", "u1")]["block_stats"].block_status
            IN /\ v \in TrueTexts => mine = TRUE
               /\ v \in FalseTexts => mine = FALSE
               /\ v \notin TrueTexts \cup FalseTexts
                    => store' = store /\ upd'.result.result = "BLOCK_STATUS_NOT_BOOLEAN"]_vars
    /\ [][ctx.pc = "step1" /\ ctx'.pc # "step1" /\ BlockStatusSet(upd) =>
            LET v == upd.parts.params[2] IN
            /\ v \in TrueTexts => ctx'.step1_result.continue_to_step_2
            /\ v \in FalseTexts => ~ctx'.step1_result.continue_to_step_2]_vars

\* block_status was set to false, the document carries a new top-level field
\* block_status, its block_stats are as before and the gate has let the user
\* through
C25_Witness ==
    /\ BlockStatusSet(upd) /\ upd.parts.params[2] = <<"false">>
    /\ upd.result.result = "OK"
    /\ store[Key("g1", "u1")]["block_status"] = BoolV(FALSE)
    /\ store[Key("g1", "u1")]["block_stats"].block_status = TRUE
    /\ ctx.pc = "step2"
    /\ ctx.step1_result.continue_to_step_2

\* the default the claim gives for a field of a type, <<>> for a field it
\* does not name
StatedDefault(type_key, field) ==
    CASE type_key = <<"favor">> /\ field \in {<<"favor_value">>, <<"last_favor_change">>}
           -> <<IntV(0)>>
      [] type_key = <<"usage">> /\ field = <<"daily_usage_count">> -> <<IntV(0)>>
      [] type_key = <<"blacklist">> /\ field = <<"block_stats", ".", "block_count">>
           -> <<IntV(0)>>
      [] type_key = <<"blacklist">> /\ field = <<"block_stats", ".", "block_status">>
           -> <<BoolV(TRUE)>>
      [] type_key = <<"memory">> /\ field = <<"long_term_memory">> -> <<ListV(<<>>)>>
      [] type_key = <<"context">> /\ field = <<"history_entries">> -> <<ListV(<<>>)>>
      [] type_key = <<"persona">> /\ field = <<"persona_attributes", ".", "basic_info">>
           -> <<StrV(<<>>)>>
      [] OTHER -> <<>>

\* the documents the queries of a command match
Reached(st, queries) ==
    {k \in DOMAIN st : \E i \in 1..Len(queries) : Matches(queries[i], k)}

\* the step is a clear of the field f of type t that was carried out
ClearOf(t, f) ==
    /\ AdminStep
    /\ upd'.parts.action = <<"clear">> /\ upd'.parts.type_key = t
    /\ upd'.parts.field = <<f>>
    /\ upd'.result.result = "OK"

\* a clear of field f leaves on document k the default d at f, a new
\* updated_at and every other field as it was
ClearedTo(k, f, d) ==
    store'[k] = set_all(store[k], <<<<f, d>>, <<<<"updated_at">>, TimeV(now)>>>>)

\* the fields for which ClearedTo holds with the default of the claim
SoundClears ==
    {<<<<"usage">>, <<"daily_usage_count">>>>,
     <<<<"blacklist">>, <<"block_stats", ".", "block_count">>>>,
     <<<<"blacklist">>, <<"block_stats", ".", "block_status">>>>,
     <<<<"persona">>, <<"persona_attributes", ".", "basic_info">>>>}

\* C26 as stated: a clear with a field resets that field path to the default
\* of its type (favor_value, last_favor_change: integer 0; daily_usage_count,
\* block_count: 0; long_term_memory, history_entries: the empty list; a
\* persona field: the empty string; block_status: true) and stamps updated_at
\* on the matched documents; every other field and every other document is
\* unchanged, and the field keeps the type it had.
C26_ClearResetsField ==
    [][\A tf \in TypeFields :
         LET t == tf[1]
             f == IF tf[2] = <<>> THEN <<>> ELSE Tail(tf[2])
         IN ClearOf(t, f) /\ StatedDefault(t, f) # <<>> =>
              \A k \in DOMAIN store :
                 IF k \in Reached(store, upd'.result.queries)
                 THEN /\ ClearedTo(k, f, StatedDefault(t, f)[1])
                      /\ get_nested(store'[k], f).kind = get_nested(store[k], f).kind
                 ELSE store'[k] = store[k]]_vars

\* the same of the fields whose default is not lost on the way
C26_SoundFields ==
    [][\A tf \in SoundClears :
         ClearOf(tf[1], tf[2]) =>
              \A k \in DOMAIN store :
                 IF k \in Reached(store, upd'.result.queries)
                 THEN ClearedTo(k, tf[2], StatedDefault(tf[1], tf[2])[1])
                 ELSE store'[k] = store[k]]_vars

\* what a clear of the four other fields leaves: the empty string
C26_EmptyString ==
    [][\A tf \in {<<<<"favor">>, <<"favor_value">>>>, <<<<"favor">>, <<"last_favor_change">>>>,
                  <<<<"memory">>, <<"long_term_memory">>>>,
                  <<<<"context">>, <<"history_entries">>>>} :
         ClearOf(tf[1], tf[2]) =>
              \A k \in DOMAIN store :
                 IF k \in Reached(store, upd'.result.queries)
                 THEN ClearedTo(k, tf[2], StrV(<<>>))
                 ELSE store'[k] = store[k]]_vars

\* favor_value of u1 has been cleared: it is the empty string, no integer
C26_Witness ==
    /\ upd.op = "admin"
    /\ upd.parts.action = <<"clear">> /\ upd.parts.field = <<<<"favor_value">>>>
    /\ upd.parts.params = <<<<"u1">>>> /\ upd.result.result = "OK"
    /\ Exists(store, "g1", "u1")
    /\ store[Key("g1", "u1")]["favor_value"] = StrV(<<>>)
    /\ store[Key("g1", "u1")]["last_favor_change"] = IntV(2)
    /\ store[Key("g1", "u1")]["updated_at"] = TimeV(CmdClock)

\* the smaller of two numbers
Least(x, y) == IF x < y THEN x ELSE y

\* the step is a clear of type context without a field
ContextClear ==
    /\ AdminStep
    /\ upd'.parts.action = <<"clear">> /\ upd'.parts.type_key = <<"context">>
    /\ upd'.parts.field = <<>>
    /\ upd'.result.result = "OK"

\* document k after the step has lost its removed most recent history entries
\* and nothing else but, perhaps, its updated_at
Trimmed(k, removed, Kept) ==
    LET before == store[k]["history_entries"].s
        after == store'[k]["history_entries"].s
    IN /\ store'[k]["history_entries"].kind = "list"
       /\ after = SubSeq(before, 1, Len(before) - removed)
       /\ \A f \in DOMAIN store[k] \ {"history_entries"} :
             f \in Kept => store'[k][f] = store[k][f]
       /\ DOMAIN store'[k] = DOMAIN store[k]

\* C27 as stated: a clear of type context without a field removes from each
\* matched document the min(context_pool_size, length) most recent history
\* entries and keeps the older ones in their order; a history longer than
\* context_pool_size is not emptied; long_term_memory and every other field are
\* unchanged.
C27_OtherFieldsUnchanged ==
    [][ContextClear =>
         \A k \in DOMAIN store :
            LET n == Len(store[k]["history_entries"].s)
                pool == upd'.args.context_pool_size
            IN IF k \in Reached(store, upd'.result.queries)
               THEN /\ Trimmed(k, Least(pool, n), DOMAIN store[k])
                    /\ n > pool => store'[k]["history_entries"].s # <<>>
               ELSE store'[k] = store[k]]_vars

\* C27: a clear of type context without a field removes from each matched
\* document the min(context_pool_size, length) most recent history entries
\* and keeps the older ones in their order; a history longer than
\* context_pool_size is not emptied; long_term_memory and every other field
\* but updated_at are unchanged, updated_at is stamped on the documents that
\* lost an entry, and the other documents are unchanged.
C27_ContextTrim ==
    [][ContextClear =>
         \A k \in DOMAIN store :
            LET n == Len(store[k]["history_entries"].s)
                pool == upd'.args.context_pool_size
            IN IF k \in Reached(store, upd'.result.queries)
               THEN /\ Trimmed(k, Least(pool, n), DOMAIN store[k] \ {"updated_at"})
                    /\ n > pool => store'[k]["history_entries"].s # <<>>
                    /\ store'[k]["updated_at"] =
                          IF Least(pool, n) > 0 THEN TimeV(now) ELSE store[k]["updated_at"]
               ELSE store'[k] = store[k]]_vars

\* a history of three entries has lost its two most recent ones
C27_Witness ==
    /\ upd.op = "admin"
    /\ upd.parts.action = <<"clear">> /\ upd.parts.type_key = <<"context">>
    /\ upd.parts.field = <<>> /\ upd.args.context_pool_size = 2
    /\ upd.result.result = "OK"
    /\ store[Key("g1", "u1")]["history_entries"] = ListV(<<Turn(1)>>)
    /\ store[Key("g1", "u2")]["history_entries"] = ListV(Turns(3))
    /\ store[Key("g1", "u1")]["updated_at"] = TimeV(CmdClock)

\* the cross-group flag of a type in the caller's configuration; memory and
\* context have none
FlagOn(a, type_key) ==
    \/ type_key = <<"usage">> /\ a.usage_limit_cross_group = "enable"
    \/ type_key = <<"persona">> /\ a.persona_cross_group = "enable"
    \/ type_key = <<"favor">> /\ a.favor_cross_group = "enable"
    \/ type_key = <<"blacklist">> /\ a.blacklist_cross_group = "enable"

\* the targets of a non-wildcard command: every parameter of a get or clear,
\* every first of a pair of a set
Targets(p) ==
    IF p.action = <<"set">> THEN [i \in 1..(Len(p.params) \div 2) |-> p.params[2 * i - 1]]
    ELSE p.params

\* the query the claim gives for a target
StatedQuery(a, p, target) ==
    [bot_id |-> <<BOT_ID>>,
     group_id |-> IF FlagOn(a, p.type_key) THEN <<>> ELSE <<a.group_id>>,
     user_id |-> IF target = <<"all">> THEN <<>> ELSE <<IdOf(target)>>]

\* the step is a non-wildcard action act of an administrator that was
\* carried out
Scoped(act) ==
    /\ AdminStep /\ upd'.args.is_user_admin = "true"
    /\ upd'.parts.action = act /\ ~upd'.parts.has_any
    /\ upd'.result.result = "OK"

\* the queries of the step are the stated ones
QueriesAsStated ==
    LET p == upd'.parts
    IN upd'.result.queries = [i \in 1..Len(Targets(p)) |-> StatedQuery(upd'.args, p, Targets(p)[i])]

\* the other interpreter builds the same queries for the command of the step
SameInBoth ==
    LET a == upd'.args
    IN execute_command_text(store, now, a, <<>>).queries
         = CommandExecutor_execute(store, now, a, <<>>).queries

\* C28 as stated: the query of a non-wildcard get, set or clear is bot_id and
\* group_id (and user_id for a user target) when the cross-group flag of the
\* type is disabled and bot_id (and user_id) when it is enabled, and both
\* interpreters build the same query for the same command text.
C28_ScopedQueries ==
    [][\A act \in {<<"get">>, <<"set">>, <<"clear">>} :
          Scoped(act) => QueriesAsStated /\ SameInBoth]_vars

\* the same of set and clear, and of the get of CommandExecutor
C28_SetAndClear ==
    [][\A act \in {<<"get">>, <<"set">>, <<"clear">>} :
          /\ Scoped(act)
          /\ act = <<"get">> => upd'.args.interpreter = "CommandExecutor"
          => /\ QueriesAsStated
             /\ act # <<"get">> => SameInBoth]_vars

\* execute_command has run a get of u1's favor with the favor flag enabled:
\* its query names the group, and u1's document of g2 was not read
C28_Witness ==
    /\ upd.op = "admin" /\ upd.args.interpreter = "execute_command"
    /\ upd.parts.action = <<"get">> /\ upd.parts.type_key = <<"favor">>
    /\ ~upd.parts.has_any /\ upd.parts.params = <<<<"u1">>>>
    /\ upd.args.favor_cross_group = "enable"
    /\ upd.result.result = "OK"
    /\ upd.result.queries[1].group_id = <<"g1">>
    /\ Exists(store, "g2", "u1")
    /\ upd.result.reads = {Key("g1", "u1")}

\* the whitelist field that the field of a rank resolves to
ResolvedField(type_key, f) ==
    RANK_FIELDS(type_key)[CHOOSE i \in 1..Len(RANK_FIELDS(type_key)) :
        f = RANK_FIELDS(type_key)[i] \/ LeafName(f) = LeafName(RANK_FIELDS(type_key)[i])]

\* the numeric key of a document for a field: a number itself, the length of
\* an array, 0 for a missing or non-numeric value
StatedKey(doc, f) ==
    LET v == get_nested(doc, f) IN
    IF IsDict(v) THEN 0
    ELSE IF v.kind = "int" THEN v.n
    ELSE IF v.kind = "list" THEN Len(v.s)
    ELSE IF v.kind = "str" /\ IsDigits(v.s) THEN DigitsToInt(v.s)
    ELSE 0

\* the words of the command text after the command token
GivenParams(a) == ParamsOf(Strip(a.user_query))

\* the limit as the text gives it: <<>> when it gives none, <<text>> otherwise
GivenLimit(a, p) ==
    IF p.has_any THEN (IF Len(GivenParams(a)) >= 2 THEN <<GivenParams(a)[2]>> ELSE <<>>)
    ELSE (IF Len(GivenParams(a)) >= 1 THEN <<GivenParams(a)[1]>> ELSE <<>>)

\* the scope of a rank: the current bot and group, or the triple of the text
RankScope(a, p) ==
    IF ~p.has_any THEN {k \in DOMAIN store : k[1] = a.group_id}
    ELSE LET sc == IF GivenParams(a) = <<>> THEN <<"%", ":", "%", ":", "%">>
                   ELSE GivenParams(a)[1]
             b == Piece(sc, ":", 1)
             g == IF NPieces(sc, ":") >= 2 THEN Piece(sc, ":", 2) ELSE <<>>
             u == IF NPieces(sc, ":") >= 3 THEN Piece(sc, ":", 3) ELSE <<>>
         IN {k \in DOMAIN store : /\ b \in {<<>>, <<"%">>, <<BOT_ID>>}
                                   /\ g \in {<<>>, <<"%">>, <<k[1]>>}
                                   /\ u \in {<<>>, <<"%">>, <<k[2]>>}}

\* the pair a rank returns for document k
PairOf(k, f) == <<k[2], StatedKey(store[k], f)>>

\* r lists the top limit documents by their key, descending, as (user_id,
\* value): each pair as often as there are documents for it at most, and no
\* document left out has a larger key than one listed; pair maps the
\* documents of the scope to their pairs
RankedAsStated(r, pair, limit) ==
    /\ Len(r) = Least(limit, Cardinality(DOMAIN pair))
    /\ \A i, j \in 1..Len(r) : i < j => r[i][2] >= r[j][2]
    /\ \A i \in 1..Len(r) :
          Cardinality({j \in 1..Len(r) : r[j] = r[i]})
             <= Cardinality({k \in DOMAIN pair : pair[k] = r[i]})
    /\ \A k \in DOMAIN pair :
          Cardinality({j \in 1..Len(r) : r[j] = pair[k]})
             < Cardinality({m \in DOMAIN pair : pair[m] = pair[k]})
          => \A i \in 1..Len(r) : pair[k][2] <= r[i][2]

\* the step is a rank of an administrator without a limit, or with an
\* integer one
RankStep(limits) ==
    /\ AdminStep /\ upd'.args.is_user_admin = "true"
    /\ upd'.parts.action = <<"rank">> /\ Given(upd'.parts.field)
    /\ Resolves(upd'.parts.type_key, upd'.parts.field[1])
    /\ GivenLimit(upd'.args, upd'.parts) \in limits

\* the rank of the step is the stated one for the limit the text gives
RankAsStated ==
    LET a == upd'.args
        p == upd'.parts
        g == GivenLimit(a, p)
        limit == IF g = <<>> THEN 5 ELSE clamp_limit(py_int(g[1])[1])
    IN /\ upd'.result.result = "OK"
       /\ \E f \in {ResolvedField(p.type_key, p.field[1])} :
          \E pair \in {[k \in RankScope(a, p) |-> PairOf(k, f)]} :
             RankedAsStated(upd'.result.ranked, pair, limit)
       /\ store' = store

\* the texts of an integer
IntTexts == {<<"3">>, <<"1">>, <<"0">>, <<"-", "2">>, <<"9", "9">>, <<"2">>}

\* the example of the claim: favor_value [10,30,20,0,40] and limit 3
RankExample ==
    /\ store \in RankStores /\ Key("g1", "u2") \in DOMAIN store
    /\ upd'.parts.type_key = <<"favor">> /\ ~upd'.parts.has_any
    /\ GivenParams(upd'.args) = <<<<"3">>>>
    => upd'.result.ranked = <<<<"u5", 40>>, <<"u2", 30>>, <<"u3", 20>>>>

\* C29 as stated: a rank returns the documents of its scope sorted descending
\* by the numeric key of the resolved field (the length of an array, 0 for a
\* missing or non-numeric value), cut to the top limit, as (user_id, value)
\* pairs from rank 1; the limit is 5 when the text gives none and is clamped
\* to [1,30]; no document changes; favor_value [10,30,20,0,40] with limit 3
\* gives the users of 40, 30 and 20.
C29_RankDefaultsToFive ==
    [][RankStep({<<>>} \cup {<<t>> : t \in IntTexts}) => RankAsStated /\ RankExample]_vars

\* the same of a rank whose text gives a limit, and of a wildcard rank
C29_RankWithLimit ==
    [][/\ RankStep({<<>>} \cup {<<t>> : t \in IntTexts})
       /\ upd'.parts.has_any \/ GivenLimit(upd'.args, upd'.parts) # <<>>
       => RankAsStated /\ RankExample]_vars

\* a rank without a limit in non-wildcard mode has returned the limit error
C29_Witness ==
    /\ upd.op = "admin" /\ upd.args.is_user_admin = "true"
    /\ upd.parts.action = <<"rank">> /\ upd.parts.type_key = <<"favor">>
    /\ upd.parts.field = <<<<"favor_value">>>> /\ ~upd.parts.has_any
    /\ GivenParams(upd.args) = <<>>
    /\ upd.parts.params = <<<<"all">>>>
    /\ upd.result.result = "LIMIT_NOT_INTEGER"
    /\ upd.result.ranked = <<>>

\* the example of the claim has been ranked
C29_ExampleRanked ==
    /\ upd.op = "admin" /\ upd.parts.action = <<"rank">>
    /\ upd.result.ranked = <<<<"u5", 40>>, <<"u2", 30>>, <<"u3", 20>>>>

\* ------------------------------------------------ claims on the text cleanup
\* pat occurs in text at position i
OccursAt(text, pat, i) ==
    /\ i >= 1
    /\ i + Len(pat) - 1 <= Len(text)
    /\ \A k \in 1..Len(pat) : text[i + k - 1] = pat[k]

Occurs(text, pat) == \E i \in 1..Len(text) : OccursAt(text, pat, i)

\* text holds an opening marker with its closing marker somewhere behind it
HasSpan(text, open, close) ==
    \E i, j \in 1..Len(text) :
        OccursAt(text, open, i) /\ OccursAt(text, close, j) /\ j >= i + Len(open)

\* none of the markers the cleanup acts on
MarkerFree(text) == ~Occurs(text, THINK_CLOSE) /\ ~Occurs(text, TOOL_CLOSE)

\* text without its leading and trailing white space
WithoutMargins(text) ==
    LET solid == {i \in 1..Len(text) : text[i] \notin Whitespace} IN
    IF solid = {} THEN <<>>
    ELSE SubSeq(text, CHOOSE i \in solid : \A k \in solid : i <= k,
                      CHOOSE j \in solid : \A k \in solid : j >= k)

\* the messages of an error pool
PoolMessages(messages) ==
    CASE messages.kind = "list" /\ messages.list # <<>> ->
            {messages.list[i] : i \in 1..Len(messages.list)}
      [] messages.kind = "str" -> {messages.str}
      [] OTHER -> {<<>>}

Cleaned == upd.op \in {"clean", "clean_again"}

\* C31: the cleaned text holds no closing </think> or </tool_call> marker and
\* no <think>...</think> or <tool_call>...</tool_call> span; a text without
\* these markers comes back unchanged apart from the trim, and only an empty
\* result is replaced by a message of the error pool; cleaning a cleaned,
\* non-empty text returns it unchanged; the review flag is 'warn' exactly when
\* the raw text contains '[warn]'
C31_TextCleanup ==
    Cleaned =>
        \E raw \in {upd.args.llm_output} :
        \E out \in {upd.result.system_output} :
            /\ ~Occurs(out, THINK_CLOSE)
            /\ ~Occurs(out, TOOL_CLOSE)
            /\ ~HasSpan(out, THINK_OPEN, THINK_CLOSE)
            /\ ~HasSpan(out, TOOL_OPEN, TOOL_CLOSE)
            /\ MarkerFree(raw) =>
                   IF WithoutMargins(raw) # <<>> THEN out = WithoutMargins(raw)
                   ELSE out \in PoolMessages(upd.args.error_output)
            /\ (WithoutMargins(raw) # <<>> /\ WithoutMargins(raw)[1] # "<") =>
                   (out # <<>> /\ out[1] = WithoutMargins(raw)[1])
            /\ (upd.op = "clean_again" /\ raw # <<>>) => out = raw
            /\ upd.result.review_result = "warn" <=> Occurs(raw, WARN)
            /\ upd.result.review_result \in {"warn", "pass"}

\* a raw text with a left-over closing marker, flagged 'warn' while the
\* cleanup removed the '[warn]' it held
C31_Witness ==
    /\ upd.op = "clean"
    /\ Occurs(upd.args.llm_output, TOOL_CLOSE)
    /\ upd.result.review_result = "warn"
    /\ ~Occurs(upd.result.system_output, WARN)
    /\ upd.result.system_output = <<"a">>

\* a cleaned, non-empty text is cleaned once more
C31_WitnessAgain ==
    /\ upd.op = "clean_again"
    /\ upd.args.llm_output # <<>>
    /\ upd.result.system_output = upd.args.llm_output

\* --------------------------------- claims on the structured-output validation
Validated == upd.op \in {"validate", "validate_extended"}

\* the items of a payload whose key is the field name or a variant holding it
NamedBy(payload, field) ==
    {i \in 1..Len(payload) : \E k \in 1..Len(payload[i].key) : payload[i].key[k] = field}

\* every field is named by at most one key and every key names at most one
\* field
Unambiguous(payload) ==
    /\ \A f \in FieldSet : Cardinality(NamedBy(payload, f)) <= 1
    /\ \A f, g \in FieldSet : f # g => NamedBy(payload, f) \cap NamedBy(payload, g) = {}

\* the value a payload gives for a field, null when it gives none
PayloadValue(payload, field) ==
    IF NamedBy(payload, field) = {} THEN NoneV
    ELSE payload[CHOOSE i \in NamedBy(payload, field) : TRUE].value

\* the schema: text and think_output required strings, image_info a list of
\* strings, timer a non-negative number, the event fields strings
SchemaValid(field, v) ==
    CASE field = "image_info" ->
            v.kind = "list" /\ \A i \in 1..Len(v.s) : v.s[i].kind = "str"
      [] field = "timer" -> v.kind \in {"int", "bool", "float"} /\ v.n >= 0
      [] OTHER -> v.kind = "str"

SchemaEmpty(field) ==
    IF field = "image_info" THEN ListV(<<>>)
    ELSE IF field = "timer" THEN NoneV
    ELSE StrV(<<>>)

SchemaRequired(field) == field \in {"text", "think_output"}

\* the number of errors a result lists for a field
ErrorsFor(result, field) ==
    Cardinality({i \in 1..Len(result.validation_errors) :
                    result.validation_errors[i].field = field})

\* the value a result returns for a field
Returned(result, field) ==
    CASE field = "text" -> result.text
      [] field = "think_output" -> result.think_output
      [] field = "image_info" -> result.image_info
      [] field = "timer" -> result.timer
      [] field = "scheduled_events" -> result.scheduled_events
      [] OTHER -> result.leap_events

\* the result is one flat, well-typed record
FlatRecord(result) ==
    /\ DOMAIN result =
          FieldSet \cup {"is_valid", "validation_errors", "validation_warnings"}
    /\ \A f \in FieldSet :
          Returned(result, f) = SchemaEmpty(f) \/ SchemaValid(f, Returned(result, f))
    /\ result.is_valid \in BOOLEAN
    /\ result.is_valid <=> result.validation_errors = <<>>

\* a field is validated on its own
FieldAsStated(result, field, v) ==
    IF v = NoneV
    THEN /\ Returned(result, field) = SchemaEmpty(field)
         /\ ErrorsFor(result, field) = IF SchemaRequired(field) THEN 1 ELSE 0
    ELSE IF SchemaValid(field, v)
    THEN Returned(result, field) = v /\ ErrorsFor(result, field) = 0
    ELSE Returned(result, field) = SchemaEmpty(field) /\ ErrorsFor(result, field) = 1

\* C32: the validation is per field and never aborts the record: the result
\* always holds the six fields, is_valid and the two lists; a missing
\* required field, a wrong type or an invalid value adds one error for that
\* field, clears is_valid and degrades only that field to its empty value,
\* every other valid field keeping the value of the payload; a payload
\* without text gives is_valid = false, one error for text and text = ""
C32_PerFieldValidation ==
    /\ upd.op \in {"validate", "validate_extended", "validate_odd"} =>
          FlatRecord(upd.result)
    /\ upd.op = "validate_odd" =>
          /\ ~upd.result.is_valid
          /\ Len(upd.result.validation_errors) = 1
          /\ \A f \in FieldSet : Returned(upd.result, f) = SchemaEmpty(f)
    /\ (Validated /\ Unambiguous(upd.payload)) =>
          /\ \A f \in FieldSet :
                FieldAsStated(upd.result, f, PayloadValue(upd.payload, f))
          /\ \A i \in 1..Len(upd.result.validation_errors) :
                upd.result.validation_errors[i].field \in FieldSet
          /\ NamedBy(upd.payload, "text") = {} =>
                /\ ~upd.result.is_valid
                /\ ErrorsFor(upd.result, "text") = 1
                /\ upd.result.text = StrV(<<>>)

\* a payload without text, with a bad image_info and a good timer
C32_Witness ==
    /\ upd.op = "validate"
    /\ NamedBy(upd.payload, "text") = {}
    /\ PayloadValue(upd.payload, "image_info") = ListV(<<StrV(<<"cat">>), IntV(1)>>)
    /\ upd.format = "json"
    /\ ~upd.result.is_valid
    /\ upd.result.text = StrV(<<>>)
    /\ upd.result.image_info = ListV(<<>>)
    /\ upd.result.timer = IntV(60)
    /\ upd.result.think_output = StrV(<<"plan">>)
    /\ Len(upd.result.validation_errors) = 2

\* the six fields and is_valid of two results agree
SameFields(a, b) ==
    /\ \A f \in FieldSet : Returned(a, f) = Returned(b, f)
    /\ a.is_valid = b.is_valid

\* C40: a key that is none of the six schema field names never changes the
\* value returned for a known field: added to a payload of valid known
\* fields it leaves the six fields and is_valid as they were and at most
\* adds a warning
C40_UnknownKeyHarmless ==
    (upd.op = "validate_extended" /\ upd.base.is_valid) =>
        /\ SameFields(upd.result, upd.base)
        /\ upd.result.validation_errors = upd.base.validation_errors
        /\ Len(upd.result.validation_warnings) <= Len(upd.base.validation_warnings) + 1

\* the key 'context' behind a valid text replaces the text, without a warning
C40_Witness ==
    /\ upd.op = "validate_extended"
    /\ upd.extra = <<"con", "text">>
    /\ upd.base.is_valid
    /\ upd.base.text = StrV(<<"hi">>)
    /\ upd.result.text = StrV(<<"extra">>)
    /\ upd.result.is_valid
    /\ upd.result.validation_warnings = upd.base.validation_warnings

\* a key that holds no schema field name changes nothing and adds one warning
C40_ForeignKey ==
    (upd.op = "validate_extended" /\ \A f \in FieldSet : ~field_in_key(f, upd.extra)) =>
        /\ SameFields(upd.result, upd.base)
        /\ upd.result.validation_errors = upd.base.validation_errors
        /\ Len(upd.result.validation_warnings) = Len(upd.base.validation_warnings) + 1

\* ------------------------------------------------ claims on the documents
\* the fields of a user document
FullFieldSet ==
    {"favor_value", "last_favor_change", "persona_attributes", "block_stats",
     "daily_usage_count", "total_usage", "long_term_memory", "history_entries",
     "history_stats", "created_at", "updated_at"}

\* every document of a collection carries the full field set
AllFull(st) == \A k \in DOMAIN st : FullFieldSet \subseteq DOMAIN st[k]

\* C33: documents are created only by the first-touch path of get_document,
\* so every document of the collection carries the full field set; the update
\* steps and the gate writes change existing documents and create none, also
\* for a key no workflow stage has resolved yet
C33_FullFieldSet == AllFull(store)

\* the blacklist update step has run for a key without a document and left
\* one that holds block_stats and updated_at only
C33_Witness ==
    /\ upd.op = "blacklist_set"
    /\ upd.args.blacklist_cross_group = "disable"
    /\ Exists(store, upd.args.group_id, upd.args.user_id)
    /\ DOMAIN store[Key(upd.args.group_id, upd.args.user_id)] = {"block_stats", "updated_at"}

\* the stages of the workflow, the first touch and the gate writes among
\* them, leave a collection of full documents full
C33_WorkflowKeepsFull ==
    [][(AllFull(store) /\ upd'.op # "blacklist_set") => AllFull(store')]_vars

\* ------------------------------------------------ claims on the history
HistoryStep == upd'.op = "history_set" /\ ops' = ops + 1 /\ ~upd'.result.skipped

\* the entries and the counter of a document (none and 0 when it has none)
EntriesOf(st, k) ==
    IF k \in DOMAIN st /\ "history_entries" \in DOMAIN st[k]
       /\ st[k]["history_entries"].kind = "list"
    THEN st[k]["history_entries"].s ELSE <<>>

TotalOf(st, k) ==
    IF k \in DOMAIN st /\ "history_stats" \in DOMAIN st[k]
       /\ st[k]["history_stats"]["total_histories"].kind = "int"
    THEN st[k]["history_stats"]["total_histories"].n ELSE 0

\* history_entries is an array and total_histories a number
SoundHistory(st, k) ==
    /\ st[k]["history_entries"].kind = "list"
    /\ st[k]["history_stats"]["total_histories"].kind = "int"

\* the step appends its entry behind the entries of the document, counts it
\* and leaves the other documents alone
AppendsOne ==
    \E k \in {Key(upd'.args.group_id, upd'.args.user_id)} :
    \E before \in {EntriesOf(store, k)} :
        /\ k \in DOMAIN store'
        /\ SoundHistory(store', k)
        /\ EntriesOf(store', k) = Append(before, upd'.result.history_entry[1])
        /\ TotalOf(store', k) = TotalOf(store, k) + 1
        /\ \A j \in DOMAIN store' \ {k} : j \in DOMAIN store /\ store'[j] = store[j]

\* the counter covers the entries, and equals their number on a document no
\* clear has changed
TotalCoversEntries ==
    \A k \in DOMAIN store :
        /\ SoundHistory(store, k)
        /\ TotalOf(store, k) >= Len(EntriesOf(store, k))
        /\ k \notin coll => TotalOf(store, k) = Len(EntriesOf(store, k))

\* C34: the history update appends exactly one entry at the end of
\* history_entries and raises history_stats.total_histories by 1, changing no
\* existing entry; hence total_histories >= length(history_entries) in every
\* state reached through first touches, history updates and admin clear
\* commands, with equality while no clear was applied to the document
C34_AppendOnlyHistory ==
    [][HistoryStep => AppendsOne]_vars /\ []TotalCoversEntries

\* after '/Roza.clear.context.history_entries u1' the history update of u1
\* raises and appends nothing
C34_Witness ==
    /\ upd.op = "history_set"
    /\ ~upd.result.skipped
    /\ upd.result.raised
    /\ Key("g1", upd.args.user_id) \in coll
    /\ store[Key("g1", upd.args.user_id)]["history_entries"] = StrV(<<>>)
    /\ TotalOf(store, Key("g1", upd.args.user_id)) = 2

\* on documents whose history fields hold an array and a number the update
\* appends and counts, and the counter covers the entries
C34_SoundHistories ==
    /\ [][(HistoryStep
           /\ \A k \in DOMAIN store : SoundHistory(store, k)) => AppendsOne]_vars
    /\ []((\A k \in DOMAIN store : SoundHistory(store, k)) =>
             \A k \in DOMAIN store :
                /\ TotalOf(store, k) >= Len(EntriesOf(store, k))
                /\ k \notin coll => TotalOf(store, k) = Len(EntriesOf(store, k)))

\* a clear of the context of a document with entries has trimmed it, and a
\* later update has appended behind what was kept
C34_Trimmed ==
    /\ upd.op = "history_set"
    /\ ~upd.result.raised /\ ~upd.result.skipped
    /\ Key("g1", upd.args.user_id) \in coll
    /\ TotalOf(store, Key("g1", upd.args.user_id)) = 3
    /\ Len(EntriesOf(store, Key("g1", upd.args.user_id))) = 2

\* ------------------------------------------ claims on the gates of one run
\* the run found its document, last updated before the caller's date
DatedBeforeRun(c) ==
    /\ c.before # <<>>
    /\ CallerDate(c) > DateVal(c.before[1]["updated_at"])

\* C35: in a full run whose caller's date is later than the date the
\* document was last updated before the run, the usage gate resets
\* daily_usage_count to 1 and admits the request, also when the blacklist
\* gate of the same run wrote to the document first
C35_ResetInFullRun ==
    [][(AtUsageGate /\ DatedBeforeRun(ctx)) =>
          /\ ctx'.pc = "step4"
          /\ store'[RunKey(ctx)]["daily_usage_count"] = 1]_vars

\* the blacklist gate lifted the block of a document last updated the day
\* before, and the usage gate of the same run rejected the request on the
\* counter of the day before
C35_Witness ==
    /\ ctx.pc = "done"
    /\ ctx.executed = <<1, 2, 3>>
    /\ ctx.result.stop_reason = "overusage"
    /\ DatedBeforeRun(ctx)
    /\ ctx.before[1]["block_stats"].block_status = FALSE
    /\ store[RunKey(ctx)]["block_stats"].block_status = TRUE
    /\ store[RunKey(ctx)]["daily_usage_count"] = 5
    /\ ctx.before[1]["daily_usage_count"] = 5

\* the reset takes place when the blacklist gate has written nothing
C35_WithoutGateWrite ==
    [][(AtUsageGate /\ DatedBeforeRun(ctx) /\ store[RunKey(ctx)] = ctx.before[1]) =>
          /\ ctx'.pc = "step4"
          /\ store'[RunKey(ctx)]["daily_usage_count"] = 1]_vars

\* ------------------------------------- claims on the gate under a clock skew
\* the checks of the series that were admitted
AdmittedChecks == {x \in coll : x.admitted}

\* the limit L of the series
SeriesLimit(x) == safe_int_convert(x.usage_limit, 0)

\* C36 as claimed: for the fixed caller date D and limit L, a sequential series
\* of usage-gate checks on one document admits at most L + 1 of them, also
\* while the server's UTC date stamped in updated_at is the day before D.
C36_AtMostLPlusOne ==
    \A x \in coll : Cardinality(AdmittedChecks) <= SeriesLimit(x) + 1

\* three checks admitted against limit 0 before the server's midnight, each
\* having reset the counter to 1
C36_Witness ==
    /\ upd.op = "usage_check"
    /\ now.day = 1
    /\ Cardinality(AdmittedChecks) = 3
    /\ \A x \in coll : SeriesLimit(x) = 0 /\ x.server_day = 1
    /\ store[Key("g1", "u1")]["daily_usage_count"] = 1
    /\ DateVal(store[Key("g1", "u1")]["updated_at"]) < 20240102

\* of the checks made once the server's date has reached D, at most L + 1 are
\* admitted
C36_AgreedDates ==
    \A x \in coll :
        Cardinality({y \in AdmittedChecks : y.server_day = 2}) <= SeriesLimit(x) + 1

\* ------------------------------------------- claims on the lifting of a block
\* block_stats say allowed, as the workflow wrote them or as a command did
Allowed(bs) ==
    IF "kind" \in DOMAIN bs.last_operate_time THEN bs.block_status = BoolV(TRUE)
    ELSE bs.block_status = TRUE

\* the document at key k exists in st and is in blocked status
Blocked(st, k) ==
    /\ k \in DOMAIN st
    /\ "block_stats" \in DOMAIN st[k]
    /\ ~Allowed(st[k]["block_stats"])

\* the documents this step takes from blocked to allowed
Unblocked ==
    {k \in DOMAIN store :
        /\ Blocked(store, k)
        /\ k \in DOMAIN store'
        /\ Allowed(store'[k]["block_stats"])}

\* the step is the blacklist gate lifting the block of the run's document,
\* block_lifespan after its last_operate_time
GateLifts(k) ==
    /\ AtBlacklistGate
    /\ k = RunKey(ctx)
    /\ Elapsed(store, now, ctx) >= BlockLifespanOf(ctx) * TicksPerSec

\* the step is an administrator's set or clear command
AdminSetOrClear == AdminStep /\ upd'.parts.action \in {<<"set">>, <<"clear">>}

\* C37 as claimed: a blocked document becomes allowed only through the
\* blacklist gate once block_lifespan has elapsed since its last_operate_time,
\* or through an administrator's set or clear command; the violation update
\* step never turns a blocked document into an allowed one, with cross-group
\* scope either.
C37_BlockLiftedByGateOnly ==
    [][/\ \A k \in Unblocked : GateLifts(k) \/ AdminSetOrClear
       /\ Updated => Unblocked = {}]_vars

\* the cross-group update for a violation in g1, where the user was allowed
\* with a count below the threshold, has left the user's document of g2, which
\* was blocked, allowed
C37_Witness ==
    /\ upd.op = "blacklist_set"
    /\ upd.args.blacklist_cross_group = "enable"
    /\ upd.args.group_id = "g1"
    /\ upd.before[Key("g1", "u1")].block_status = TRUE
    /\ upd.before[Key("g2", "u1")].block_status = FALSE
    /\ upd.result.new_block_status = "True"
    /\ store[Key("g2", "u1")]["block_stats"].block_status = TRUE
    /\ store[Key("g2", "u1")]["block_stats"].block_count = 1

\* apart from the update step, a block is lifted only by the gate once
\* block_lifespan has elapsed or by an administrator's set or clear command
C37_GateOrAdminOtherwise ==
    [][\A k \in Unblocked : ~Updated => GateLifts(k) \/ AdminSetOrClear]_vars

\* the gate has lifted a block block_lifespan after last_operate_time
C37_GateLifted ==
    /\ ctx.pc = "step2"
    /\ ctx.before # <<>>
    /\ ctx.before[1]["block_stats"].block_status = FALSE
    /\ store[RunKey(ctx)]["block_stats"].block_status = TRUE

\* an administrator's clear has lifted a block
C37_AdminLifted ==
    /\ upd.op = "admin"
    /\ upd.parts.action = <<"clear">>
    /\ Allowed(store[Key("g3", "u1")]["block_stats"])

\* --------------------------------------- claims on the count of the allowed
\* the documents in allowed status whose count has reached threshold t
AllowedAtThreshold(st, t) ==
    {k \in DOMAIN st :
        /\ "block_stats" \in DOMAIN st[k]
        /\ st[k]["block_stats"].block_status = TRUE
        /\ st[k]["block_stats"].block_count >= t}

\* the warning thresholds the update steps are called with
Thresholds(Updates) == {safe_int_convert(a.warn_count, 3) : a \in Updates}

\* C38 as claimed: with the threshold T fixed, in every state reached through
\* blacklist gate checks and blacklist update steps a document in allowed
\* status has block_count < T, right after the gate has lifted an expired block
\* and right after the update step has reset the count too.
C38_AllowedBelowThreshold ==
    \A t \in Thresholds(BlackUpdates) : AllowedAtThreshold(store, t) = {}

\* the gate has lifted an expired block and left the count at the threshold
\* that had blocked the user
C38_Witness ==
    /\ ctx.pc = "step2"
    /\ ctx.inp.blacklist_system = "enable"
    /\ ctx.before # <<>>
    /\ ctx.before[1]["block_stats"].block_status = FALSE
    /\ ctx.inp.timestamp - ctx.before[1]["block_stats"].last_operate_time.time
         >= BlockLifespanOf(ctx) * TicksPerSec
    /\ store[RunKey(ctx)]["block_stats"].block_status = TRUE
    /\ store[RunKey(ctx)]["block_stats"].block_count = 2
    /\ RunKey(ctx) \in AllowedAtThreshold(store, 2)

\* an update step that finds no allowed document at the threshold leaves none
C38_UpdateKeepsBelow ==
    [][Updated =>
         \A t \in Thresholds(BlackUpdates) :
             AllowedAtThreshold(store, t) = {} => AllowedAtThreshold(store', t) = {}]_vars

\* the update step has reset the count of a warned user to 1, below threshold 2
C38_ResetToOne ==
    /\ upd.op = "blacklist_set"
    /\ upd.result.block_count = 1
    /\ upd.result.new_block_status = "True"
    /\ upd.args.timestamp = TicksPerSec
    /\ Key(upd.args.group_id, "u1") \in DOMAIN store
    /\ store[Key(upd.args.group_id, "u1")]["block_stats"].block_count = 1
    /\ ops = 2

\* ------------------------------------- claims on the administrator's right
\* the step is a command whose caller's is_user_admin is not "true"
NonAdminStep == AdminStep /\ upd'.args.is_user_admin # "true"

\* C39: a command of a caller whose is_user_admin is not "true" is refused
\* before it is parsed, whatever the command text: the answer is the refusal
\* with no query built, no document read and none written; so after any
\* sequence of such commands every document is as it was.
C39_NonAdminRefused ==
    /\ [][NonAdminStep =>
            /\ store' = store
            /\ upd'.result = Sans(Response(store, "NO_ADMIN", <<>>, {}, <<>>))]_vars
    /\ []("true" \notin coll => store = RefuseStore)

\* three commands of callers without the right, the last one a well-formed
\* clear with is_user_admin "True", have left the documents as they were
C39_Witness ==
    /\ ops = 3
    /\ coll = {"false", "True"}
    /\ upd.args.is_user_admin = "True"
    /\ upd.parts.action = <<"clear">>
    /\ upd.result.result = "NO_ADMIN"
    /\ store = RefuseStore

\* the same clear by an administrator has changed the document
C39_AdminClears ==
    /\ upd.op = "admin"
    /\ upd.args.is_user_admin = "true"
    /\ upd.parts.action = <<"clear">>
    /\ upd.result.result = "OK"
    /\ store # RefuseStore

====
